---- MODULE Spec2Model ----
(***************************************************************************)
(* A model of baezi, the Banking4 -> ezbookkeeping importer.               *)
(*                                                                         *)
(* Strings the program inspects character by character (source ids,        *)
(* descriptions, ledger comments) are sequences of one-character strings.  *)
(* Booking dates are day numbers, amounts are integers in minor units.     *)
(***************************************************************************)
EXTENDS Integers, Sequences, FiniteSets, TLC

VARIABLES
    phase,          \* position of the control flow
    transfers,      \* all_transfers: the candidate list handed to find_matches
    existing_ids,   \* the existing-id set handed around by run_import
    matched_pairs,  \* find_matches: result, list of TransferPair
    unmatched,      \* find_matches: result, list of B4Transaction
    trace,          \* find_matches: positions visited (pairs / singles)
    comment,        \* marker codec: the comment under inspection
    wrote,          \* marker codec: the source ids the comment was written for
    marker_payload, \* marker codec: the marker payload of a foreign comment
    parsed,         \* marker codec: the ids _load_existing_ids read from it
    files,          \* the *.json files of config.json_folder, in glob order
    account_map,    \* AccountService._account_map
    config,         \* Config: api_token, json_folder, min_booking_date
    ledger,         \* the target ledger's transactions (kept across runs)
    server_categories, \* the target ledger's categories (kept across runs)
    category_map,   \* CategoryService._category_map
    transfer_cats,  \* CategoryService: _transfer_category_id, _external_transfer_cats
    cursor,         \* loop positions: file, record, pair, unmatched
    stats,          \* ImportStats
    calls,          \* the create_transaction calls of the current run
    last,           \* what the last step did
    run,            \* number of the current run
    history,        \* per run: whether the ids were loaded, how it ended
    exit_code,      \* the status main exits with, -1 while it runs
    target,         \* the target ledger's answers: accounts, category tree, pages
    pager,          \* get_all_transactions: page, all_transactions, requests
    environ,        \* os.environ: the BAEZI_* variables
    argv            \* the command-line options main was called with

matchVars == <<transfers, existing_ids, matched_pairs, unmatched, trace>>

codecVars == <<comment, wrote, marker_payload, parsed>>

launchVars == <<environ, argv>>

inputVars == <<files, account_map, config, launchVars>>

gatewayVars == <<target, pager>>

runVars == <<ledger, server_categories, category_map, transfer_cats, cursor,
             stats, calls, last, run, history, exit_code>>

vars == <<phase, matchVars, codecVars, inputVars, runVars, gatewayVars>>

----------------------------------------------------------------------------
(* Generic helpers *)

Min(S) == CHOOSE x \in S : \A y \in S : x <= y

Abs(n) == IF n < 0 THEN -n ELSE n

Range(s) == {s[i] : i \in 1..Len(s)}

----------------------------------------------------------------------------
(* Python string operations on character sequences *)

\* s[i:i+len(p)] == p
StartsAt(s, p, i) ==
    /\ i >= 1
    /\ i + Len(p) - 1 <= Len(s)
    /\ SubSeq(s, i, i + Len(p) - 1) = p

\* str.find, 1-based; 0 when p does not occur in s
StrFind(s, p) ==
    LET hits == {i \in 1..(Len(s) + 1) : StartsAt(s, p, i)}
    IN IF hits = {} THEN 0 ELSE Min(hits)

\* p in s
StrContains(s, p) == StrFind(s, p) # 0

\* str.split(sep): the pieces between the non-overlapping occurrences of sep,
\* scanned from the left; always at least one piece
RECURSIVE StrSplit(_, _)
StrSplit(s, sep) ==
    LET j == StrFind(s, sep)
    IN IF j = 0
       THEN <<s>>
       ELSE <<SubSeq(s, 1, j - 1)>>
            \o StrSplit(SubSeq(s, j + Len(sep), Len(s)), sep)

\* s[:n]
StrTake(s, n) == SubSeq(s, 1, IF Len(s) < n THEN Len(s) ELSE n)

----------------------------------------------------------------------------
(* models.py: enumerations and the B4Transaction / TransferPair properties *)

INCOME == 2
EXPENSE == 3
TRANSFER == 4

CREDIT == "CRDT"
DEBIT == "DBIT"

BOOKED == "BOOK"
PENDING == "PDNG"

\* the reserved category name that marks a record as a transfer ("Umbuchung")
Umbuchung == <<"U", "m", "b", "u", "c", "h", "u", "n", "g">>

is_booked(tx) == tx.booking_status = BOOKED

\* the marker category not recognised
is_transfer_never(tx) == FALSE

is_transfer(tx) == tx.category = Umbuchung

\* the two directions taken for each other
transaction_type_swapped(tx) ==
    IF is_transfer(tx)
    THEN TRANSFER
    ELSE IF tx.direction = CREDIT THEN EXPENSE ELSE INCOME

transaction_type(tx) ==
    IF is_transfer(tx)
    THEN TRANSFER
    ELSE IF tx.direction = CREDIT THEN INCOME ELSE EXPENSE

is_income(tx) == tx.direction = CREDIT

is_expense(tx) == tx.direction = DEBIT

TransferPair(tx1, tx2) == [source_tx |-> tx1, dest_tx |-> tx2]

sender_first(pair) == pair.source_tx

sender(pair) ==
    IF pair.source_tx.direction = DEBIT THEN pair.source_tx ELSE pair.dest_tx

receiver(pair) ==
    IF pair.dest_tx.direction = CREDIT THEN pair.dest_tx ELSE pair.source_tx

\* the pair's id led by the sending side
combined_id_sender_first(pair) ==
    IF pair.source_tx.direction = DEBIT
    THEN pair.source_tx.id \o <<"_">> \o pair.dest_tx.id
    ELSE pair.dest_tx.id \o <<"_">> \o pair.source_tx.id

combined_id(pair) == pair.source_tx.id \o <<"_">> \o pair.dest_tx.id

pair_amount(pair) == pair.source_tx.amount

pair_date(pair) ==
    IF pair.dest_tx.booking_date < pair.source_tx.booking_date
    THEN pair.dest_tx.booking_date
    ELSE pair.source_tx.booking_date

----------------------------------------------------------------------------
(* importers/transfer_matcher.py *)

\* Config.transfer_tolerance_days, handed to TransferMatcher.__init__
tolerance_days == 3

is_match_strict(tx1, tx2) ==
    /\ tx1.amount = tx2.amount
    /\ tx1.account_id # tx2.account_id
    /\ tx1.direction # tx2.direction
    /\ Abs(tx1.booking_date - tx2.booking_date) < tolerance_days

is_match(tx1, tx2) ==
    /\ tx1.amount = tx2.amount
    /\ tx1.account_id # tx2.account_id
    /\ tx1.direction # tx2.direction
    /\ Abs(tx1.booking_date - tx2.booking_date) <= tolerance_days

\* the records used up in this call are not remembered
already_handled_existing_only(id, processed, existing) == id \in existing

\* only the records used up in this call are left out
already_handled_here(id, processed, existing) == id \in processed

\* tx1.id in processed or tx1.id in existing_ids (and the same for candidate.id)
already_handled(id, processed, existing) == id \in processed \/ id \in existing

\* a best-match policy: the eligible candidate nearest in date
find_partner_nearest(tx, list, k, processed, existing) ==
    LET ok == {c \in k..Len(list) :
                 /\ list[c].id \notin processed
                 /\ list[c].id \notin existing
                 /\ is_match(tx, list[c])}
        gap(c) == Abs(tx.booking_date - list[c].booking_date)
    IN  IF ok = {}
        THEN 0
        ELSE CHOOSE c \in ok :
               \A d \in ok : gap(c) < gap(d) \/ (gap(c) = gap(d) /\ c <= d)

\* a search that gives up after the first eligible candidate
RECURSIVE find_partner_next_only(_, _, _, _, _)
find_partner_next_only(tx, list, k, processed, existing) ==
    IF k > Len(list)
    THEN 0
    ELSE IF already_handled(list[k].id, processed, existing)
         THEN find_partner_next_only(tx, list, k + 1, processed, existing)
         ELSE IF is_match(tx, list[k]) THEN k ELSE 0

\* The loop of _find_partner over candidates = list[k..]; the position of the
\* partner in list, 0 for None.
RECURSIVE find_partner(_, _, _, _, _)
find_partner(tx, list, k, processed, existing) ==
    IF k > Len(list)
    THEN 0
    ELSE IF already_handled(list[k].id, processed, existing)
         THEN find_partner(tx, list, k + 1, processed, existing)
         ELSE IF is_match(tx, list[k])
              THEN k
              ELSE find_partner(tx, list, k + 1, processed, existing)

\* The loop of find_matches from position i on.  st carries the locals
\* matches, unmatched and processed; st.visits records, per left-hand record
\* that was not skipped, its position and its partner's (0: none).
RECURSIVE find_matches_loop(_, _, _, _)
find_matches_loop(list, existing, i, st) ==
    IF i > Len(list)
    THEN st
    ELSE IF already_handled(list[i].id, st.processed, existing)
         THEN find_matches_loop(list, existing, i + 1, st)
         ELSE LET partner == find_partner(list[i], list, i + 1,
                                          st.processed, existing)
              IN  IF partner # 0
                  THEN find_matches_loop(list, existing, i + 1,
                         [st EXCEPT
                            !.matches = Append(@, TransferPair(list[i], list[partner])),
                            !.processed = @ \cup {list[i].id, list[partner].id},
                            !.visits = Append(@, <<i, partner>>)])
                  ELSE find_matches_loop(list, existing, i + 1,
                         [st EXCEPT
                            !.unmatched = Append(@, list[i]),
                            !.processed = @ \cup {list[i].id},
                            !.visits = Append(@, <<i, 0>>)])

find_matches(list, existing) ==
    find_matches_loop(list, existing, 1,
        [matches |-> <<>>, unmatched |-> <<>>, processed |-> {}, visits |-> <<>>])

----------------------------------------------------------------------------
(* The comment marker: written by _create_transaction_payload, read back by *)
(* _load_existing_ids                                                       *)

B4ID_PREFIX == <<"[", "B", "4", "I", "D", ":">>

\* description[:200]
DescLimit == 200

\* pair.sender.description[:100]
PairDescLimit == 100

final_comment(description, b4_id) ==
    StrTake(description, DescLimit) \o <<" ">> \o B4ID_PREFIX \o b4_id \o <<"]">>

\* f"Transfer: {pair.sender.description[:100]}"
pair_description(pair) ==
    <<"T", "r", "a", "n", "s", "f", "e", "r", ":", " ">>
    \o StrTake(sender(pair).description, PairDescLimit)

\* f"[Extern] {tx.description}"
extern_description(tx) ==
    <<"[", "E", "x", "t", "e", "r", "n", "]", " ">> \o tx.description

\* raw_id_str = comment.split("[B4ID:")[1].split("]")[0]
raw_id_str(c) == StrSplit(StrSplit(c, B4ID_PREFIX)[2], <<"]">>)[1]

\* the ids one existing transaction adds to all_b4_ids
comment_ids(c) ==
    IF StrContains(c, B4ID_PREFIX)
    THEN Range(StrSplit(raw_id_str(c), <<"_">>))
    ELSE {}

\* all_b4_ids after the loop over the fetched transactions
load_ids(comments) == UNION {comment_ids(comments[i]) : i \in 1..Len(comments)}

----------------------------------------------------------------------------
(* models.py: B4Transaction.from_json on one entry of a source file.        *)
(* An entry is [fields, Id, BookgDt, Amt, RmtInf, CdtDbtInd, Category,      *)
(* BookgSts]: fields is the set of keys the JSON object has; BookgDt is     *)
(* [kind, day] with kind "date" (a YYYY-MM-DD string), "badstr" (another    *)
(* string) or "null" (not a string); Amt is [kind, cents] with kind "num"   *)
(* (a number or numeric string, signed), "badstr" or "null".                *)

required_fields == {"Id", "BookgDt", "Amt", "RmtInf", "CdtDbtInd"}

\* the status check left to from_json
get_BookgSts_unchecked(data) == "BOOK"

\* data.get("BookgSts")
get_BookgSts(data) == IF "BookgSts" \in data.fields THEN data.BookgSts ELSE "None"

\* the raw amount stored with the sign it came with
stored_amount_signed(raw) == raw

\* amount=abs(float(data["Amt"]))
stored_amount(raw) == Abs(raw)

\* The result is [exc |-> "none", tx |-> B4Transaction] or [exc |-> the
\* exception raised]; the keyword arguments are evaluated in order, so the
\* first field that fails decides the exception.
from_json(data, account_id) ==
    IF required_fields \ data.fields # {}
    THEN [exc |-> "ValueError"]
    ELSE IF data.BookgDt.kind = "null"
    THEN [exc |-> "TypeError"]
    ELSE IF data.BookgDt.kind # "date"
    THEN [exc |-> "ValueError"]
    ELSE IF data.Amt.kind = "null"
    THEN [exc |-> "TypeError"]
    ELSE IF data.Amt.kind # "num"
    THEN [exc |-> "ValueError"]
    ELSE IF data.CdtDbtInd \notin {CREDIT, DEBIT}
    THEN [exc |-> "ValueError"]
    ELSE IF "BookgSts" \in data.fields /\ data.BookgSts \notin {BOOKED, PENDING}
    THEN [exc |-> "ValueError"]
    ELSE [exc |-> "none",
          tx |-> [id |-> data.Id,
                  booking_date |-> data.BookgDt.day,
                  amount |-> stored_amount(data.Amt.cents),
                  description |-> data.RmtInf,
                  direction |-> data.CdtDbtInd,
                  category |-> IF "Category" \in data.fields THEN data.Category ELSE <<>>,
                  booking_status |-> IF "BookgSts" \in data.fields
                                     THEN data.BookgSts ELSE BOOKED,
                  account_id |-> account_id]]

----------------------------------------------------------------------------
(* services/account_service.py *)

has_account(amap, b4_account_id) == b4_account_id \in DOMAIN amap

\* dict.get: None for an unmapped id (str(None) in the payload)
get_ezb_account_id(amap, b4_account_id) ==
    IF b4_account_id \in DOMAIN amap
    THEN amap[b4_account_id]
    ELSE "None"

----------------------------------------------------------------------------
(* services/category_service.py *)

\* the neutral category id "0"
NEUTRAL == <<"0">>

RECURSIVE StrLStrip(_)
StrLStrip(s) == IF s # <<>> /\ Head(s) = " " THEN StrLStrip(Tail(s)) ELSE s

RECURSIVE StrRStrip(_)
StrRStrip(s) ==
    IF s # <<>> /\ s[Len(s)] = " " THEN StrRStrip(SubSeq(s, 1, Len(s) - 1)) ELSE s

\* str.strip()
StrStrip(s) == StrRStrip(StrLStrip(s))

\* f"{cat_type}_{name}"
CatKey(cat_type, name) == <<IF cat_type = 1 THEN "1" ELSE "2", "_">> \o name

\* the id the server gives a category it creates
NewCategoryId(key) == <<"#">> \o key

\* the success flag is not looked at
create_succeeds_unchecked(outcome) == outcome \in {"ok", "rejected"}

\* create_category returned, the response has success and result.id: "ok";
\* "rejected" is a response without success, "error" an APIError, "malformed"
\* a response with success and no result.id
create_succeeds(outcome) == outcome = "ok"

\* only the empty path is neutral
is_neutral_path_empty_only(full_path) == full_path = <<>>

\* not full_path or full_path == "Umbuchung"
is_neutral_path(full_path) == full_path = <<>> \/ full_path = Umbuchung

\* every key is taken as missing
in_cache_never(cmap, key) == FALSE

\* key in self._category_map
in_cache(cmap, key) == key \in DOMAIN cmap

\* a creation counted twice
increment_categories_twice(n) == n + 2

\* stats.increment_categories() on the number of categories counted so far
increment_categories(n) == n + 1

\* ensure_category_hierarchy(full_path, trans_type, stats) on the category
\* map cmap; main_ok / sub_ok say whether create_category succeeds should it
\* be called for the top-level / the sub-category.  Returns the category id,
\* the map afterwards, the number of categories created (increments of
\* stats.new_categories), the number of create_category calls made and the
\* keys they were made for.
ensure_category_hierarchy(cmap, full_path, trans_type, main_ok, sub_ok) ==
    IF is_neutral_path(full_path)
    THEN [id |-> NEUTRAL, map |-> cmap, created |-> 0, calls |-> 0,
          requests |-> <<>>]
    ELSE
      LET cat_type == IF trans_type = INCOME THEN 1 ELSE 2
          split == StrSplit(full_path, <<":">>)
          parts == [i \in 1..Len(split) |-> StrStrip(split[i])]
          main_name == parts[1]
          main_key == CatKey(cat_type, main_name)
          need_main == ~in_cache(cmap, main_key)
      IN  IF need_main /\ ~main_ok
          THEN [id |-> NEUTRAL, map |-> cmap, created |-> 0, calls |-> 1,
                requests |-> <<[level |-> "main", key |-> main_key]>>]
          ELSE
            LET map1 == IF need_main
                        THEN (main_key :> NewCategoryId(main_key)) @@ cmap
                        ELSE cmap
                n1 == IF need_main THEN increment_categories(0) ELSE 0
                c1 == IF need_main THEN 1 ELSE 0
                r1 == IF need_main THEN <<[level |-> "main", key |-> main_key]>> ELSE <<>>
                parent_id == map1[main_key]
            IN  IF Len(parts) > 1
                THEN
                  LET sub_key == CatKey(cat_type, main_name \o <<":">> \o parts[2])
                      need_sub == ~in_cache(map1, sub_key)
                  IN  IF need_sub /\ ~sub_ok
                      THEN [id |-> parent_id, map |-> map1,
                            created |-> n1, calls |-> c1 + 1,
                            requests |-> Append(r1, [level |-> "sub", key |-> sub_key])]
                      ELSE IF need_sub
                      THEN [id |-> NewCategoryId(sub_key),
                            map |-> (sub_key :> NewCategoryId(sub_key)) @@ map1,
                            created |-> increment_categories(n1),
                            calls |-> c1 + 1,
                            requests |-> Append(r1, [level |-> "sub", key |-> sub_key])]
                      ELSE [id |-> map1[sub_key], map |-> map1,
                            created |-> n1, calls |-> c1, requests |-> r1]
                ELSE [id |-> parent_id, map |-> map1, created |-> n1,
                      calls |-> c1, requests |-> r1]

\* get_external_transfer_category(is_income)
get_external_transfer_category(ext, income) ==
    IF income THEN ext.income ELSE ext.expense

----------------------------------------------------------------------------
(* services/transaction_service.py: the payload of a create call *)

\* _create_transaction_payload; transfer_cat is
\* self.category_service.transfer_category_id.  Amounts are already minor
\* units, booking dates day numbers.
create_transaction_payload(acc_id, amount, booking_date, description, category_id, trans_type, b4_id, partner_acc_id, transfer_cat) ==
    LET amt_cents == Abs(amount)
        cat == IF trans_type = TRANSFER /\ transfer_cat # NEUTRAL
               THEN transfer_cat
               ELSE category_id
    IN  IF trans_type = TRANSFER
        THEN [type |-> trans_type,
              time |-> booking_date,
              categoryId |-> cat,
              comment |-> final_comment(description, b4_id),
              sourceAccountId |-> acc_id,
              destinationAccountId |-> partner_acc_id,
              sourceAmount |-> amt_cents,
              destinationAmount |-> amt_cents]
        ELSE [type |-> trans_type,
              time |-> booking_date,
              categoryId |-> cat,
              comment |-> final_comment(description, b4_id),
              sourceAccountId |-> acc_id,
              sourceAmount |-> amt_cents]

----------------------------------------------------------------------------
(* config.py and the date filter.  A booking date is the day number within  *)
(* 2024 (1 is 2024-01-01); Config.min_booking_date is a string.             *)

Digits == <<"0", "1", "2", "3", "4", "5", "6", "7", "8", "9">>

IsDigit(c) == \E i \in 1..Len(Digits) : Digits[i] = c

DigitVal(c) == (CHOOSE i \in 1..Len(Digits) : Digits[i] = c) - 1

RECURSIVE StrToNat(_)
StrToNat(s) ==
    IF s = <<>> THEN 0
    ELSE StrToNat(SubSeq(s, 1, Len(s) - 1)) * 10 + DigitVal(s[Len(s)])

IsLeap(y) == (y % 4 = 0 /\ y % 100 # 0) \/ y % 400 = 0

DaysIn(y, m) ==
    IF m = 2 THEN (IF IsLeap(y) THEN 29 ELSE 28)
    ELSE IF m \in {4, 6, 9, 11} THEN 30 ELSE 31

RECURSIVE DaysBefore(_, _)
DaysBefore(y, m) == IF m = 1 THEN 0 ELSE DaysBefore(y, m - 1) + DaysIn(y, m - 1)

TwoDigits(n) == <<Digits[(n \div 10) + 1], Digits[(n % 10) + 1]>>

\* booking_date.strftime("%Y-%m-%d") of a day of 2024
strftime(day) ==
    LET m == CHOOSE k \in 1..12 :
                 DaysBefore(2024, k) < day /\ day <= DaysBefore(2024, k) + DaysIn(2024, k)
    IN  <<"2", "0", "2", "4", "-">> \o TwoDigits(m) \o <<"-">>
        \o TwoDigits(day - DaysBefore(2024, m))

\* datetime.strptime(s, "%Y-%m-%d"): four digits, then month and day of one
\* or two digits each; [exc |-> "ValueError"] when s does not match or names
\* no date
strptime(s) ==
    LET parts == StrSplit(s, <<"-">>)
    IN  IF \/ Len(parts) # 3
           \/ \E i \in 1..Len(s) : s[i] # "-" /\ ~IsDigit(s[i])
        THEN [exc |-> "ValueError"]
        ELSE IF \/ Len(parts[1]) # 4
                \/ Len(parts[2]) \notin {1, 2}
                \/ Len(parts[3]) \notin {1, 2}
        THEN [exc |-> "ValueError"]
        ELSE LET y == StrToNat(parts[1])
                 m == StrToNat(parts[2])
                 d == StrToNat(parts[3])
             IN  IF y < 1 \/ m \notin 1..12 \/ d < 1 \/ d > DaysIn(y, m)
                 THEN [exc |-> "ValueError"]
                 ELSE [exc |-> "none", year |-> y, month |-> m, day |-> d]

\* code points of the characters of date strings
Ord(c) == IF c = "-" THEN 45 ELSE IF c = "." THEN 46 ELSE 48 + DigitVal(c)

\* a < b on str
StrLess(a, b) ==
    \E i \in 1..Len(b) :
        /\ Len(a) >= i - 1
        /\ \A j \in 1..(i - 1) : a[j] = b[j]
        /\ \/ Len(a) = i - 1
           \/ Ord(a[i]) < Ord(b[i])

\* BAEZI_MIN_DATE defaults to "2024-01-15"
DefaultMinDate == <<"2", "0", "2", "4", "-", "0", "1", "-", "1", "5">>

DefaultConfig == [api_token |-> <<"k">>, json_folder_exists |-> TRUE,
                  min_booking_date |-> DefaultMinDate, page_size |-> 50]

\* Config.validate(): "ok" or the ValueError it raises
validate(cfg) ==
    IF cfg.api_token = <<>> THEN "ValueError"
    ELSE IF ~cfg.json_folder_exists THEN "ValueError"
    ELSE IF strptime(cfg.min_booking_date).exc # "none" THEN "ValueError"
    ELSE "ok"

\* tx.booking_date.strftime("%Y-%m-%d") < self.config.min_booking_date
before_min_date(tx, cfg) == StrLess(strftime(tx.booking_date), cfg.min_booking_date)

----------------------------------------------------------------------------
(* Values of the variables a specification does not use *)

NoStats == [skipped |-> 0, new_transactions |-> 0, new_transfers |-> 0,
            new_categories |-> 0, errors |-> 0]

\* the skip left uncounted
increment_skipped_uncounted(st) == st

\* ImportStats.increment_skipped
increment_skipped(st) == [st EXCEPT !.skipped = @ + 1]

NoCursor == [file |-> 1, record |-> 1, pair |-> 1, single |-> 1]

NoTransferCats == [transfer |-> NEUTRAL, income |-> NEUTRAL, expense |-> NEUTRAL]

\* a target ledger nothing is asked of
NoTarget == [accounts |-> <<>>, tree |-> <<>>, pages |-> <<>>, beyond |-> "empty"]

\* get_all_transactions not called
NoPager == [page |-> 1, all_transactions |-> <<>>, requested |-> <<>>,
            state |-> "idle"]

GatewayIdle ==
    /\ target = NoTarget
    /\ pager = NoPager

\* a start whose environment and options play no part
NoEnviron == <<>>

NoArgs == <<>>

LaunchIdle ==
    /\ environ = NoEnviron
    /\ argv = NoArgs

CodecIdle ==
    /\ comment = <<>>
    /\ wrote = {}
    /\ marker_payload = <<>>
    /\ parsed = {}

MatchIdle ==
    /\ transfers = <<>>
    /\ existing_ids = {}
    /\ matched_pairs = <<>>
    /\ unmatched = <<>>
    /\ trace = <<>>

RunIdle ==
    /\ files = <<>>
    /\ account_map = <<>>
    /\ config = DefaultConfig
    /\ ledger = <<>>
    /\ server_categories = <<>>
    /\ category_map = <<>>
    /\ transfer_cats = NoTransferCats
    /\ cursor = NoCursor
    /\ stats = NoStats
    /\ calls = <<>>
    /\ last = "init"
    /\ run = 1
    /\ history = <<>>
    /\ exit_code = -1

----------------------------------------------------------------------------
(* Specification SpecMatch: find_matches applied to every candidate list   *)
(* of up to MaxBatch Umbuchung records and to every existing-id set with   *)
(* at most one of their ids.                                                *)

MaxBatch == 3

\* the record at position k of a candidate list carries the id "k"
PosId == <<(<<"1">>), (<<"2">>), (<<"3">>), (<<"4">>), (<<"5">>)>>

MatchDays == {0, 3, 4}

MatchAmounts == {100, 250}

MatchAccounts == {"ACC001", "ACC002"}

MatchRecord(k) ==
    [id : {PosId[k]},
     booking_date : MatchDays,
     amount : MatchAmounts,
     description : {<<"T">>},
     direction : {CREDIT, DEBIT},
     category : {Umbuchung},
     booking_status : {BOOKED},
     account_id : MatchAccounts]

NoResult == [matches |-> <<>>, unmatched |-> <<>>, processed |-> {}, visits |-> <<>>]

InitMatch ==
    /\ phase = "collect"
    /\ transfers = <<>>
    /\ existing_ids \in {{}} \cup {{PosId[k]} : k \in 1..MaxBatch}
    /\ matched_pairs = <<>>
    /\ unmatched = <<>>
    /\ trace = <<>>
    /\ CodecIdle
    /\ LaunchIdle
    /\ GatewayIdle
    /\ RunIdle

\* all_transfers.append(tx)
Collect ==
    /\ phase = "collect"
    /\ Len(transfers) < MaxBatch
    /\ \E tx \in MatchRecord(Len(transfers) + 1) :
          transfers' = Append(transfers, tx)
    /\ UNCHANGED <<phase, existing_ids, matched_pairs, unmatched, trace,
                   codecVars, inputVars, gatewayVars, runVars>>

\* matched_pairs, unmatched = self.transfer_matcher.find_matches(transfers, existing_ids)
FindMatches ==
    /\ phase = "collect"
    /\ LET r == find_matches(transfers, existing_ids)
       IN  /\ matched_pairs' = r.matches
           /\ unmatched' = r.unmatched
           /\ trace' = r.visits
    /\ phase' = "matched"
    /\ UNCHANGED <<transfers, existing_ids, codecVars, inputVars, gatewayVars, runVars>>

NextMatch == Collect \/ FindMatches

SpecMatch == InitMatch /\ [][NextMatch]_vars

----------------------------------------------------------------------------
(* Claims about the Transfer Matcher, checked under SpecMatch *)

\* The pairing predicate as the specification words it.
PairingPredicate(a, b) ==
    /\ a.amount = b.amount
    /\ a.account_id # b.account_id
    /\ {a.direction, b.direction} = {CREDIT, DEBIT}
    /\ \E gap \in 0..tolerance_days :
          a.booking_date - b.booking_date \in {gap, -gap}

\* The visits of find_matches that produced a pair, in order.
PairVisits == SelectSeq(trace, LAMBDA v : v[2] # 0)

\* Positions already used up (as either side of a pair or as a single) by
\* the visits before visit number n.
UsedBefore(n) ==
    UNION {{trace[m][1], trace[m][2]} : m \in 1..(n - 1)} \ {0}

\* C3: for a candidate list of two records that are not already existing,
\* find_matches returns exactly the one pair and nothing unmatched if and only
\* if the amounts are equal, the accounts differ, the directions are opposite
\* and the booking dates are at most tolerance_days apart (inclusive);
\* otherwise it returns no pair and both records, in order, as unmatched.
C3_PairingPredicate ==
    (/\ phase = "matched"
     /\ Len(transfers) = 2
     /\ existing_ids \cap {transfers[1].id, transfers[2].id} = {})
    => IF PairingPredicate(transfers[1], transfers[2])
       THEN /\ matched_pairs = <<TransferPair(transfers[1], transfers[2])>>
            /\ unmatched = <<>>
       ELSE /\ matched_pairs = <<>>
            /\ unmatched = <<transfers[1], transfers[2]>>

\* C3 witness: two records exactly tolerance_days apart were paired.
C3_Witness ==
    /\ phase = "matched"
    /\ Len(transfers) = 2
    /\ existing_ids = {}
    /\ transfers[2].booking_date - transfers[1].booking_date = tolerance_days
    /\ Len(matched_pairs) = 1
    /\ unmatched = <<>>

\* C4: a left-hand record is paired with the first record after it, in input
\* order, that is not already existing, not used up by an earlier visit and
\* satisfies the pairing predicate - whatever the date distance of later
\* candidates - and with no other record.
C4_FirstMatch ==
    phase = "matched" =>
      /\ Len(matched_pairs) = Len(PairVisits)
      /\ \A n \in 1..Len(PairVisits) :
            matched_pairs[n] =
              TransferPair(transfers[PairVisits[n][1]], transfers[PairVisits[n][2]])
      /\ \A n \in 1..Len(trace) :
           LET i == trace[n][1]
               j == trace[n][2]
               eligible == {k \in (i + 1)..Len(transfers) :
                              /\ transfers[k].id \notin existing_ids
                              /\ k \notin UsedBefore(n)
                              /\ PairingPredicate(transfers[i], transfers[k])}
           IN  /\ j # 0 => (eligible # {} /\ j = Min(eligible))
               /\ \A m \in 1..Len(trace) : (m # n) => trace[m][1] # i

\* C4 witness: A matches B and C, C is nearer in date, B comes first: A was
\* paired with B and C stayed unmatched.
C4_Witness ==
    /\ phase = "matched"
    /\ Len(transfers) = 3
    /\ existing_ids = {}
    /\ PairingPredicate(transfers[1], transfers[2])
    /\ PairingPredicate(transfers[1], transfers[3])
    /\ transfers[1].booking_date = transfers[3].booking_date
    /\ transfers[1].booking_date # transfers[2].booking_date
    /\ matched_pairs = <<TransferPair(transfers[1], transfers[2])>>
    /\ unmatched = <<transfers[3]>>

\* C5: every returned pair holds two distinct records with opposite
\* directions, different accounts and equal amounts; its sender is the debit
\* side and its receiver the credit side whichever came first; its amount is
\* either side's amount and its date the earlier booking date.
C5_PairInvariant ==
    phase = "matched" =>
      \A n \in 1..Len(matched_pairs) :
        LET p == matched_pairs[n]
        IN  /\ p.source_tx # p.dest_tx
            /\ p.source_tx.direction # p.dest_tx.direction
            /\ p.source_tx.account_id # p.dest_tx.account_id
            /\ p.source_tx.amount = p.dest_tx.amount
            /\ sender(p) \in {p.source_tx, p.dest_tx}
            /\ receiver(p) \in {p.source_tx, p.dest_tx}
            /\ sender(p).direction = DEBIT
            /\ receiver(p).direction = CREDIT
            /\ pair_amount(p) = sender(p).amount
            /\ pair_amount(p) = receiver(p).amount
            /\ pair_date(p) \in {p.source_tx.booking_date, p.dest_tx.booking_date}
            /\ pair_date(p) <= p.source_tx.booking_date
            /\ pair_date(p) <= p.dest_tx.booking_date

\* C5 witness: a pair whose credit side came first in the input and whose
\* second record has the earlier date.
C5_Witness ==
    /\ phase = "matched"
    /\ Len(matched_pairs) = 1
    /\ matched_pairs[1].source_tx.direction = CREDIT
    /\ matched_pairs[1].dest_tx.booking_date < matched_pairs[1].source_tx.booking_date
    /\ sender(matched_pairs[1]) = matched_pairs[1].dest_tx

----------------------------------------------------------------------------
(* Specification SpecMarker: the comment marker written for a record, an    *)
(* unmatched transfer or a pair and read back by _load_existing_ids, and    *)
(* the marker of a comment that was already in the target ledger.           *)

MaxIdLen == 2

MaxDescTokens == 1

MaxPayloadLen == 5

\* all sequences over S of length 0..n
RECURSIVE SeqsUpTo(_, _)
SeqsUpTo(S, n) ==
    IF n = 0
    THEN {<<>>}
    ELSE LET shorter == SeqsUpTo(S, n - 1)
         IN  shorter \cup {Append(q, c) : q \in shorter, c \in S}

RECURSIVE Flatten(_)
Flatten(ss) == IF ss = <<>> THEN <<>> ELSE Head(ss) \o Flatten(Tail(ss))

\* source ids: str(data["Id"]) is any string
MarkerIds == SeqsUpTo({"a", "_", "]"}, MaxIdLen)

\* descriptions: data["RmtInf"] is any text
MarkerDescriptions ==
    {Flatten(ts) : ts \in SeqsUpTo({<<"x">>, <<"]">>, B4ID_PREFIX}, MaxDescTokens)}

\* payloads of a marker already in the ledger: text without "]"
MarkerPayloads == SeqsUpTo({"A", "B", "C", "_"}, MaxPayloadLen)

MarkerTx(id, description, direction) ==
    [id |-> id, booking_date |-> 0, amount |-> 100, description |-> description,
     direction |-> direction, category |-> Umbuchung, booking_status |-> BOOKED,
     account_id |-> "ACC001"]

InitMarker ==
    /\ phase = "codec"
    /\ MatchIdle
    /\ CodecIdle
    /\ LaunchIdle
    /\ GatewayIdle
    /\ RunIdle

CodecFrame == UNCHANGED <<matchVars, inputVars, gatewayVars, runVars>>

\* _import_single_transaction: description=tx.description, b4_id=tx.id
WriteSingle ==
    /\ phase = "codec"
    /\ \E d \in MarkerDescriptions, id \in MarkerIds :
          /\ comment' = final_comment(d, id)
          /\ wrote' = {id}
    /\ parsed' = comment_ids(comment')
    /\ phase' = "single"
    /\ marker_payload' = <<>>
    /\ CodecFrame

\* _import_unmatched_transfer: description=f"[Extern] {tx.description}", b4_id=tx.id
WriteUnmatched ==
    /\ phase = "codec"
    /\ \E d \in MarkerDescriptions, id \in MarkerIds :
          /\ comment' = final_comment(extern_description(MarkerTx(id, d, DEBIT)), id)
          /\ wrote' = {id}
    /\ parsed' = comment_ids(comment')
    /\ phase' = "extern"
    /\ marker_payload' = <<>>
    /\ CodecFrame

\* _import_transfer_pair: description=f"Transfer: ...", b4_id=pair.combined_id
WritePair ==
    /\ phase = "codec"
    /\ \E d \in MarkerDescriptions, id1 \in MarkerIds, id2 \in MarkerIds :
          LET pair == TransferPair(MarkerTx(id1, d, DEBIT), MarkerTx(id2, d, CREDIT))
          IN  /\ comment' = final_comment(pair_description(pair), combined_id(pair))
              /\ wrote' = {id1, id2}
    /\ parsed' = comment_ids(comment')
    /\ phase' = "pair"
    /\ marker_payload' = <<>>
    /\ CodecFrame

\* _load_existing_ids on a transaction whose comment embeds [B4ID:<payload>]
ReadForeign ==
    /\ phase = "codec"
    /\ \E p \in MarkerPayloads, pre \in {<<>>, <<"x", " ">>}, post \in {<<>>, <<" ", "y">>} :
          /\ marker_payload' = p
          /\ comment' = pre \o B4ID_PREFIX \o p \o <<"]">> \o post
    /\ parsed' = comment_ids(comment')
    /\ phase' = "foreign"
    /\ wrote' = {}
    /\ CodecFrame

NextMarker == WriteSingle \/ WriteUnmatched \/ WritePair \/ ReadForeign

SpecMarker == InitMarker /\ [][NextMarker]_vars

\* C6: parsing the comment the importer creates for a single record, an
\* unmatched transfer or a pair recovers exactly the source ids the
\* transaction represents, for every description and every source id.
C6_MarkerRoundTrip ==
    phase \in {"single", "extern", "pair"} => parsed = wrote

\* C7: a payload that contains the separator is split into exactly two ids,
\* both added to the set; a payload without separator is added whole.
C7_MarkerParser ==
    phase = "foreign" =>
      IF StrContains(marker_payload, <<"_">>)
      THEN \E k \in 1..Len(marker_payload) :
              /\ marker_payload[k] = "_"
              /\ parsed = {SubSeq(marker_payload, 1, k - 1),
                           SubSeq(marker_payload, k + 1, Len(marker_payload))}
      ELSE parsed = {marker_payload}

----------------------------------------------------------------------------
(* Specification Spec: runs of the importer (main -> run_import) over the   *)
(* same source files against a target ledger that keeps what earlier runs   *)
(* created.                                                                 *)

MaxRecs == 2

MaxRuns == 2

AllFields == {"Id", "BookgDt", "Amt", "RmtInf", "CdtDbtInd", "Category", "BookgSts"}

Salary == <<"S", "a", "l", "a", "r", "y">>

\* a well-formed entry with every field
Entry(id, day, cents, desc, ind, cat, sts) ==
    [fields |-> AllFields,
     Id |-> id,
     BookgDt |-> [kind |-> "date", day |-> day],
     Amt |-> [kind |-> "num", cents |-> cents],
     RmtInf |-> desc,
     CdtDbtInd |-> ind,
     Category |-> cat,
     BookgSts |-> sts]

\* The entries the source files are made of, each with the stem of its file,
\* in the order the run meets them.
Catalogue ==
    << \* an ordinary credit with a category
       [stem |-> "100",
        data |-> Entry(<<"t", "1">>, 32, 5000, <<"p", "a", "y">>, CREDIT, Salary, BOOKED)],
       \* a transfer leaving account 100, raw amount negative
       [stem |-> "100",
        data |-> Entry(<<"t", "2">>, 33, -5000, <<"m", "v">>, DEBIT, Umbuchung, BOOKED)],
       \* its counterpart arriving on account 200 a day later
       [stem |-> "200",
        data |-> Entry(<<"t", "3">>, 34, 5000, <<"m", "v">>, CREDIT, Umbuchung, BOOKED)],
       \* an ordinary debit with a main:sub category whose id holds the separator
       [stem |-> "200",
        data |-> Entry(<<"a", "_", "b">>, 40, -1250, <<"x">>, DEBIT, <<"F", ":", "O">>,
                       BOOKED)],
       \* an ordinary debit without Category that repeats the id t1 in another
       \* file, raw amount unsigned
       [stem |-> "200",
        data |-> [Entry(<<"t", "1">>, 32, 300, <<"y">>, DEBIT, <<>>, BOOKED)
                    EXCEPT !.fields = AllFields \ {"Category"}]],
       \* a pending entry: no booking date
       [stem |-> "100",
        data |-> [Entry(<<"p", "1">>, 0, 900, <<"w">>, DEBIT, <<>>, PENDING)
                    EXCEPT !.fields = AllFields \ {"BookgDt"}]],
       \* an entry without BookgSts
       [stem |-> "100",
        data |-> [Entry(<<"m", "1">>, 35, 900, <<"w">>, DEBIT, <<>>, BOOKED)
                    EXCEPT !.fields = AllFields \ {"BookgSts"}]],
       \* a booked entry whose amount is not numeric
       [stem |-> "200",
        data |-> [Entry(<<"e", "1">>, 36, 0, <<"w">>, DEBIT, <<>>, BOOKED)
                    EXCEPT !.Amt = [kind |-> "badstr", cents |-> 0]]],
       \* a booked entry whose date is null
       [stem |-> "200",
        data |-> [Entry(<<"n", "1">>, 0, 100, <<"w">>, DEBIT, <<>>, BOOKED)
                    EXCEPT !.BookgDt = [kind |-> "null", day |-> 0]]],
       \* a booked entry dated the day before min_booking_date
       [stem |-> "100",
        data |-> Entry(<<"o", "1">>, 14, 100, <<"w">>, DEBIT, <<>>, BOOKED)],
       \* an entry of a file whose account is not mapped
       [stem |-> "300",
        data |-> Entry(<<"u", "1">>, 37, 100, <<"w">>, DEBIT, <<>>, BOOKED)] >>

\* at most MaxRecs entries of the catalogue cat, in its order
SelectionsOf(cat) ==
    {[j \in 1..Len(idx) |-> cat[idx[j]]] :
        idx \in {SelectSeq([i \in 1..Len(cat) |-> i], LAMBDA i : i \in S) :
                    S \in {T \in SUBSET (1..Len(cat)) : Cardinality(T) <= MaxRecs}}}

\* the entries of the source files
Selections == SelectionsOf(Catalogue)

\* glob("*.json"): the files in a fixed order
FileStems == <<"100", "200", "300">>

\* the files holding the entries of src, each file in the order of src
FilesOf(src) ==
    [k \in 1..Len(FileStems) |->
        LET mine == SelectSeq(src, LAMBDA e : e.stem = FileStems[k])
        IN  [stem |-> FileStems[k],
             records |-> [i \in 1..Len(mine) |-> mine[i].data]]]

\* the account map load_account_map builds: 100 and 200 carry the marker
MappedAccounts == ("100" :> "acc-1") @@ ("200" :> "acc-2")

\* a target transaction: what the ledger returns (the payload) and the source
\* ids it stands for
LedgerEntry(p, ids) == [payload |-> p, b4_ids |-> ids]

\* The target ledger before the first run: a fresh one, or one in use that
\* holds a foreign transaction, an imported one, and the categories.
Servers ==
    { [ledger |-> <<>>,
       categories |-> <<>>,
       cats |-> NoTransferCats],
      [ledger |-> << LedgerEntry([type |-> EXPENSE, time |-> 10,
                                  categoryId |-> NEUTRAL,
                                  comment |-> <<"r", "e", "n", "t">>,
                                  sourceAccountId |-> "acc-1",
                                  sourceAmount |-> 80000], {}),
                     LedgerEntry([type |-> INCOME, time |-> 32,
                                  categoryId |-> NEUTRAL,
                                  comment |-> final_comment(<<"p", "a", "y">>,
                                                            <<"t", "1">>),
                                  sourceAccountId |-> "acc-1",
                                  sourceAmount |-> 5000], {<<"t", "1">>}) >>,
       categories |-> (CatKey(1, Salary) :> <<"5">>),
       cats |-> [transfer |-> <<"7">>, income |-> <<"8">>, expense |-> <<"9">>]] }

Init ==
    /\ phase = "load"
    /\ MatchIdle
    /\ CodecIdle
    /\ LaunchIdle
    /\ GatewayIdle
    /\ \E src \in Selections : files = FilesOf(src)
    /\ account_map = MappedAccounts
    /\ config = DefaultConfig
    /\ \E server \in Servers :
          /\ ledger = server.ledger
          /\ server_categories = server.categories
          /\ category_map = server.categories
          /\ transfer_cats = server.cats
    /\ cursor = NoCursor
    /\ stats = NoStats
    /\ calls = <<>>
    /\ last = "init"
    /\ run = 1
    /\ history = <<>>
    /\ exit_code = -1

Outcomes == {"ok", "rejected", "error"}

\* the source ids a created transaction stands for
SourceIds(kind, src) ==
    IF kind = "pair" THEN {src.source_tx.id, src.dest_tx.id} ELSE {src.id}

\* the counters after the response to a create call: "ok" is a response with
\* success, "rejected" one without, "error" an APIError
count_create(st, kind, outcome) ==
    IF outcome = "ok"
    THEN IF kind = "pair"
         THEN [st EXCEPT !.new_transfers = @ + 1]
         ELSE [st EXCEPT !.new_transactions = @ + 1]
    ELSE [st EXCEPT !.errors = @ + 1]

\* a set that takes up no id
ids_after_create_forgetful(existing, kind, src, outcome) == existing

\* existing_ids after the response to a create call
ids_after_create(existing, kind, src, outcome) ==
    IF outcome # "ok"
    THEN existing
    ELSE IF kind = "single"
         THEN existing \cup {src.id}
         ELSE IF kind = "pair"
              THEN existing \cup {src.source_tx.id, src.dest_tx.id}
              ELSE existing

\* self.api.create_transaction(payload) and the handling of its outcome
CreateCall(kind, src, p, outcome) ==
    /\ calls' = Append(calls, [kind |-> kind, src |-> src, payload |-> p,
                               ok |-> (outcome = "ok")])
    /\ ledger' = IF outcome = "ok"
                 THEN Append(ledger, LedgerEntry(p, SourceIds(kind, src)))
                 ELSE ledger
    /\ existing_ids' = ids_after_create(existing_ids, kind, src, outcome)
    /\ last' = IF outcome = "ok" THEN "created" ELSE "failed"

LedgerComments == [i \in 1..Len(ledger) |-> ledger[i].payload.comment]

\* Phase 1, _load_existing_ids: get_all_transactions returns the ledger, or
\* raises and the set stays empty
LoadExisting ==
    /\ phase = "load"
    /\ \E loaded \in BOOLEAN :
          /\ existing_ids' = IF loaded THEN load_ids(LedgerComments) ELSE {}
          /\ last' = IF loaded THEN "loaded" ELSE "load failed"
          /\ history' = Append(history, [loaded |-> loaded, ended |-> "running",
                                         failures |-> 0])
    /\ phase' = "direct"
    /\ cursor' = NoCursor
    /\ UNCHANGED <<transfers, matched_pairs, unmatched, trace, codecVars, inputVars, gatewayVars,
                   ledger, server_categories, category_map, transfer_cats,
                   stats, calls, run, exit_code>>

InDirectPass == phase = "direct" /\ cursor.file <= Len(files)

CurrentFile == files[cursor.file]

\* Phase 2, the file loop: no account for the file stem
SkipFile ==
    /\ InDirectPass
    /\ ~has_account(account_map, CurrentFile.stem)
    /\ cursor' = [cursor EXCEPT !.file = @ + 1, !.record = 1]
    /\ last' = "file skipped"
    /\ UNCHANGED <<phase, matchVars, codecVars, inputVars, gatewayVars, ledger, server_categories,
                   category_map, transfer_cats, stats, calls, run, history, exit_code>>

\* Phase 2, the file loop: the entries of the file are exhausted
NextFile ==
    /\ InDirectPass
    /\ has_account(account_map, CurrentFile.stem)
    /\ cursor.record > Len(CurrentFile.records)
    /\ cursor' = [cursor EXCEPT !.file = @ + 1, !.record = 1]
    /\ last' = "file done"
    /\ UNCHANGED <<phase, matchVars, codecVars, inputVars, gatewayVars, ledger, server_categories,
                   category_map, transfer_cats, stats, calls, run, history, exit_code>>

AtRecord ==
    /\ InDirectPass
    /\ has_account(account_map, CurrentFile.stem)
    /\ cursor.record <= Len(CurrentFile.records)

CurrentData == CurrentFile.records[cursor.record]

CurrentParse == from_json(CurrentData, CurrentFile.stem)

NextRecord == cursor' = [cursor EXCEPT !.record = @ + 1]

\* _import_single_transaction(tx, acc_id, existing_ids)
ImportSingle(tx, acc_id) ==
    \E main_ok \in BOOLEAN, sub_ok \in BOOLEAN, outcome \in Outcomes :
       LET ens == ensure_category_hierarchy(category_map, tx.category,
                                            transaction_type(tx), main_ok, sub_ok)
           p == create_transaction_payload(acc_id, tx.amount, tx.booking_date,
                    tx.description, ens.id, transaction_type(tx), tx.id, "0",
                    transfer_cats.transfer)
       IN  /\ category_map' = ens.map
           /\ server_categories' = ens.map @@ server_categories
           /\ CreateCall("single", tx, p, outcome)
           /\ stats' = count_create([stats EXCEPT !.new_categories = @ + ens.created],
                                    "single", outcome)

\* Phase 2, the body of the loop over the entries of one file
ProcessRecord ==
    /\ AtRecord
    /\ \/ \* not booked: skipped before parsing
          /\ get_BookgSts(CurrentData) # "BOOK"
          /\ NextRecord
          /\ last' = "not booked"
          /\ UNCHANGED <<phase, exit_code, matchVars, ledger, server_categories, category_map,
                         stats, calls>>
       \/ \* from_json raises ValueError: counted, skipped
          /\ get_BookgSts(CurrentData) = "BOOK"
          /\ CurrentParse.exc = "ValueError"
          /\ NextRecord
          /\ stats' = [stats EXCEPT !.errors = @ + 1]
          /\ last' = "parse error"
          /\ UNCHANGED <<phase, exit_code, matchVars, ledger, server_categories, category_map,
                         calls>>
       \/ \* from_json raises TypeError: not caught, run_import ends
          /\ get_BookgSts(CurrentData) = "BOOK"
          /\ CurrentParse.exc = "TypeError"
          /\ phase' = "aborted"
          /\ last' = "parse crash"
          /\ exit_code' = 1
          /\ UNCHANGED <<cursor, matchVars, ledger, server_categories, category_map,
                         stats, calls>>
       \/ \* the date filter
          /\ get_BookgSts(CurrentData) = "BOOK"
          /\ CurrentParse.exc = "none"
          /\ before_min_date(CurrentParse.tx, config)
          /\ NextRecord
          /\ last' = "too old"
          /\ UNCHANGED <<phase, exit_code, matchVars, ledger, server_categories, category_map,
                         stats, calls>>
       \/ \* already in existing_ids
          /\ get_BookgSts(CurrentData) = "BOOK"
          /\ CurrentParse.exc = "none"
          /\ ~before_min_date(CurrentParse.tx, config)
          /\ CurrentParse.tx.id \in existing_ids
          /\ NextRecord
          /\ stats' = increment_skipped(stats)
          /\ last' = "skipped"
          /\ UNCHANGED <<phase, exit_code, matchVars, ledger, server_categories, category_map,
                         calls>>
       \/ \* an Umbuchung: collected for phase 3
          /\ get_BookgSts(CurrentData) = "BOOK"
          /\ CurrentParse.exc = "none"
          /\ ~before_min_date(CurrentParse.tx, config)
          /\ CurrentParse.tx.id \notin existing_ids
          /\ is_transfer(CurrentParse.tx)
          /\ NextRecord
          /\ transfers' = Append(transfers, CurrentParse.tx)
          /\ last' = "collected"
          /\ UNCHANGED <<phase, exit_code, existing_ids, matched_pairs, unmatched, trace, ledger,
                         server_categories, category_map, stats, calls>>
       \/ \* any other record: imported at once
          /\ get_BookgSts(CurrentData) = "BOOK"
          /\ CurrentParse.exc = "none"
          /\ ~before_min_date(CurrentParse.tx, config)
          /\ CurrentParse.tx.id \notin existing_ids
          /\ ~is_transfer(CurrentParse.tx)
          /\ NextRecord
          /\ ImportSingle(CurrentParse.tx,
                          get_ezb_account_id(account_map, CurrentFile.stem))
          /\ UNCHANGED <<phase, exit_code, transfers, matched_pairs, unmatched, trace>>
    /\ UNCHANGED <<codecVars, inputVars, gatewayVars, transfer_cats, run, history>>

\* Phase 3, _import_transfers: find_matches on the collected batch
ImportTransfers ==
    /\ phase = "direct"
    /\ cursor.file > Len(files)
    /\ LET r == find_matches(transfers, existing_ids)
       IN  /\ matched_pairs' = r.matches
           /\ unmatched' = r.unmatched
           /\ trace' = r.visits
    /\ phase' = "transfers"
    /\ last' = "matched"
    /\ UNCHANGED <<transfers, existing_ids, codecVars, inputVars, gatewayVars, ledger,
                   server_categories, category_map, transfer_cats, cursor, stats,
                   calls, run, history, exit_code>>

\* Phase 3, _import_transfer_pair(pair, existing_ids)
ImportPair ==
    /\ phase = "transfers"
    /\ cursor.pair <= Len(matched_pairs)
    /\ \E outcome \in Outcomes :
          LET pair == matched_pairs[cursor.pair]
              sender_acc_id == get_ezb_account_id(account_map, sender(pair).account_id)
              receiver_acc_id == get_ezb_account_id(account_map, receiver(pair).account_id)
              p == create_transaction_payload(sender_acc_id, pair_amount(pair),
                       pair_date(pair), pair_description(pair), transfer_cats.transfer,
                       TRANSFER, combined_id(pair), receiver_acc_id,
                       transfer_cats.transfer)
          IN  /\ CreateCall("pair", pair, p, outcome)
              /\ stats' = count_create(stats, "pair", outcome)
    /\ cursor' = [cursor EXCEPT !.pair = @ + 1]
    /\ UNCHANGED <<phase, transfers, matched_pairs, unmatched, trace, codecVars,
                   inputVars, gatewayVars, server_categories, category_map, transfer_cats, run,
                   history, exit_code>>

\* Phase 3, _import_unmatched_transfer(tx, existing_ids)
ImportUnmatched ==
    /\ phase = "transfers"
    /\ cursor.pair > Len(matched_pairs)
    /\ cursor.single <= Len(unmatched)
    /\ \E outcome \in Outcomes :
          LET tx == unmatched[cursor.single]
              acc_id == get_ezb_account_id(account_map, tx.account_id)
              trans_type == transaction_type(tx)
              ext_cat_id == get_external_transfer_category(
                                [income |-> transfer_cats.income,
                                 expense |-> transfer_cats.expense], is_income(tx))
              p == create_transaction_payload(acc_id, tx.amount, tx.booking_date,
                       extern_description(tx), ext_cat_id, trans_type, tx.id, "0",
                       transfer_cats.transfer)
          IN  /\ CreateCall("unmatched", tx, p, outcome)
              /\ stats' = count_create(stats, "unmatched", outcome)
    /\ cursor' = [cursor EXCEPT !.single = @ + 1]
    /\ UNCHANGED <<phase, transfers, matched_pairs, unmatched, trace, codecVars,
                   inputVars, gatewayVars, server_categories, category_map, transfer_cats, run,
                   history, exit_code>>

\* _print_summary, return self.stats, and main's exit status
Summary ==
    /\ phase = "transfers"
    /\ cursor.pair > Len(matched_pairs)
    /\ cursor.single > Len(unmatched)
    /\ phase' = "summary"
    /\ last' = "summary"
    /\ exit_code' = IF stats.errors > 0 THEN 1 ELSE 0
    /\ UNCHANGED <<matchVars, codecVars, inputVars, gatewayVars, ledger, server_categories,
                   category_map, transfer_cats, cursor, stats, calls, run, history>>

\* how the current run went, for the runs after it
RunRecord ==
    [loaded |-> IF Len(history) < run THEN FALSE ELSE history[run].loaded,
     ended |-> phase,
     failures |-> Cardinality({i \in 1..Len(calls) : ~calls[i].ok})]

\* The importer is started again on the same files: new service objects, the
\* category map loaded from the target ledger.
StartRun ==
    /\ phase \in {"summary", "aborted", "interrupted"}
    /\ run < MaxRuns
    /\ run' = run + 1
    /\ history' = [i \in 1..run |-> IF i = run THEN RunRecord ELSE history[i]]
    /\ phase' = "load"
    /\ transfers' = <<>>
    /\ existing_ids' = {}
    /\ matched_pairs' = <<>>
    /\ unmatched' = <<>>
    /\ trace' = <<>>
    /\ category_map' = server_categories
    /\ cursor' = NoCursor
    /\ stats' = NoStats
    /\ calls' = <<>>
    /\ last' = "started"
    /\ exit_code' = -1
    /\ UNCHANGED <<codecVars, inputVars, gatewayVars, ledger, server_categories, transfer_cats>>

\* KeyboardInterrupt between two steps of a run
Interrupt ==
    /\ phase \in {"load", "direct", "transfers"}
    /\ phase' = "interrupted"
    /\ last' = "interrupted"
    /\ exit_code' = 130
    /\ UNCHANGED <<matchVars, codecVars, inputVars, gatewayVars, ledger, server_categories,
                   category_map, transfer_cats, cursor, stats, calls, run, history>>

Next ==
    \/ LoadExisting
    \/ SkipFile
    \/ NextFile
    \/ ProcessRecord
    \/ ImportTransfers
    \/ ImportPair
    \/ ImportUnmatched
    \/ Summary
    \/ StartRun

Spec == Init /\ [][Next]_vars

NextResume == Next \/ Interrupt

SpecResume == Init /\ [][NextResume]_vars

\* one run of the importer
NextRun ==
    \/ LoadExisting
    \/ SkipFile
    \/ NextFile
    \/ ProcessRecord
    \/ ImportTransfers
    \/ ImportPair
    \/ ImportUnmatched
    \/ Summary

SpecRun == Init /\ [][NextRun]_vars

-----------------------------------------------------------------------------
(* Properties of the import runs *)

\* the create calls of the current run that failed
FailedCalls == {i \in 1..Len(calls) : ~calls[i].ok}

\* the day Config.min_booking_date names
MinDay(cfg) ==
    LET d == strptime(cfg.min_booking_date)
    IN  DaysBefore(d.year, d.month) + d.day

\* the positions (file, entry) of mapped files the direct pass has gone past
Passed ==
    {pos \in UNION {{<<f, r>> : r \in 1..Len(files[f].records)} : f \in 1..Len(files)} :
        /\ has_account(account_map, files[pos[1]].stem)
        /\ \/ phase \in {"transfers", "summary"}
           \/ /\ phase \in {"direct", "aborted", "interrupted"}
              /\ \/ pos[1] < cursor.file
                 \/ pos[1] = cursor.file /\ pos[2] < cursor.record}

DataAt(pos) == files[pos[1]].records[pos[2]]

ParseAt(pos) == from_json(DataAt(pos), files[pos[1]].stem)

\* the entry is booked, parses, and is not older than min_booking_date
InScope(pos) ==
    /\ get_BookgSts(DataAt(pos)) = "BOOK"
    /\ ParseAt(pos).exc = "none"
    /\ ParseAt(pos).tx.booking_date >= MinDay(config)

\* the source ids the create calls of the current run were made for
AttemptedIds == UNION {SourceIds(calls[i].kind, calls[i].src) : i \in 1..Len(calls)}

\* C1: when a run that loaded the existing ids follows a run that reached the
\* summary with every create call succeeding, on the same files and the ledger
\* the earlier run left, it creates no transaction and no transfer.
C1_Idempotent ==
    (/\ run >= 2
     /\ phase = "summary"
     /\ history[run].loaded
     /\ history[run - 1].ended = "summary"
     /\ history[run - 1].failures = 0)
    => (stats.new_transactions = 0 /\ stats.new_transfers = 0)

\* C2: every create call for a record the matcher left unmatched is of type
\* income (credit) or expense (debit), never transfer, carries the external
\* transfer category of that direction, and a description that starts with the
\* external flag.
C2_UnmatchedOrdinary ==
    \A i \in 1..Len(calls) :
        calls[i].kind = "unmatched" =>
            LET tx == calls[i].src
                p == calls[i].payload
            IN  /\ p.type = (IF tx.direction = CREDIT THEN INCOME ELSE EXPENSE)
                /\ p.type # TRANSFER
                /\ p.categoryId = (IF tx.direction = CREDIT
                                   THEN transfer_cats.income
                                   ELSE transfer_cats.expense)
                /\ StartsAt(p.comment, <<"[", "E", "x", "t", "e", "r", "n", "]", " ">>, 1)

\* C8: after a create call of the current run succeeded, the ids of the
\* record or of both records of the pair it was made for are in existing_ids.
C8_ExistingGrows ==
    \A i \in 1..Len(calls) :
        calls[i].ok => SourceIds(calls[i].kind, calls[i].src) \subseteq existing_ids

\* C9: when the existing ids were loaded in every run so far, whether the
\* runs were interrupted or completed, no source id is represented by more
\* than one transaction of the target ledger.
C9_ResumeNoDuplicate ==
    (\A k \in 1..Len(history) : history[k].loaded) =>
        \A a \in 1..Len(ledger), b \in 1..Len(ledger) :
            a # b => ledger[a].b4_ids \cap ledger[b].b4_ids = {}

\* C10: whatever the outcomes of the create calls, each failed call adds
\* exactly one to the error counter (the counter is the failed calls plus the
\* entries that failed to parse), the run is never stopped, and at the summary
\* every entry in scope is in existing_ids or had a create call made for it.
C10_BestEffort ==
    /\ phase # "aborted"
    /\ stats.errors = Cardinality(FailedCalls)
                      + Cardinality({pos \in Passed :
                                        /\ get_BookgSts(DataAt(pos)) = "BOOK"
                                        /\ ParseAt(pos).exc = "ValueError"})
    /\ phase = "summary" =>
          \A pos \in Passed :
              InScope(pos) => ParseAt(pos).tx.id \in existing_ids \cup AttemptedIds

\* C11: a run that has ended exits with a non-zero status exactly when its
\* error counter is above zero.
C11_ExitStatus ==
    exit_code # -1 => ((exit_code # 0) <=> (stats.errors > 0))

\* C12: a step at a booked entry that from_json rejects adds exactly one to
\* the error counter, creates nothing, collects nothing, and leaves the run in
\* the direct pass at the next entry.
C12_ParseLocal ==
    [][(AtRecord /\ get_BookgSts(CurrentData) = "BOOK" /\ CurrentParse.exc # "none")
        => /\ stats' = [stats EXCEPT !.errors = @ + 1]
           /\ calls' = calls
           /\ ledger' = ledger
           /\ transfers' = transfers
           /\ phase' = "direct"
           /\ cursor' = [cursor EXCEPT !.record = @ + 1]]_vars

\* the entry carries a booking status other than booked
NotBooked(data) == "BookgSts" \in data.fields /\ data.BookgSts # BOOKED

\* C13: a step at an entry whose booking status is not booked changes no
\* counter, makes no create call, creates no category, adds nothing to the
\* transfer batch or to existing_ids, and moves on to the next entry, whatever
\* the other fields of the entry are.
C13_NotBookedSkipped ==
    [][(AtRecord /\ NotBooked(CurrentData))
        => /\ stats' = stats
           /\ calls' = calls
           /\ ledger' = ledger
           /\ transfers' = transfers
           /\ existing_ids' = existing_ids
           /\ category_map' = category_map
           /\ phase' = "direct"
           /\ cursor' = [cursor EXCEPT !.record = @ + 1]]_vars

\* a pending entry that from_json would reject has just been passed
C13_Witness ==
    /\ phase = "direct"
    /\ last = "not booked"
    /\ cursor.record > 1
    /\ cursor.file <= Len(files)
    /\ LET data == CurrentFile.records[cursor.record - 1]
       IN  /\ NotBooked(data)
           /\ from_json(data, CurrentFile.stem).exc # "none"

\* the entry with its booking status spelled out as booked
AsBooked(data) == [data EXCEPT !.fields = @ \cup {"BookgSts"}, !.BookgSts = BOOKED]

\* C14: a step at an entry without BookgSts does what the pipeline does for
\* the same entry with status BOOK: an entry in date and not yet known is
\* counted as skipped when its id is in existing_ids, collected when it is an
\* Umbuchung, and has a create call made for it otherwise.
C14_StatusDefaultsBooked ==
    [][(AtRecord /\ "BookgSts" \notin CurrentData.fields)
        => LET r == from_json(AsBooked(CurrentData), CurrentFile.stem)
           IN  (r.exc = "none" /\ r.tx.booking_date >= MinDay(config))
               => IF r.tx.id \in existing_ids
                  THEN stats'.skipped = stats.skipped + 1
                  ELSE IF is_transfer(r.tx)
                  THEN transfers' = Append(transfers, r.tx)
                  ELSE /\ Len(calls') = Len(calls) + 1
                       /\ calls'[Len(calls')].src = r.tx]_vars

-----------------------------------------------------------------------------
(* The date filter under the configurations Config.validate accepts: main    *)
(* validates the configuration, then the run goes as above.                  *)

\* entries dated around 2024-01-15 and 2024-02-15, among them two transfers
FilterCatalogue ==
    << [stem |-> "100",
        data |-> Entry(<<"f", "1">>, 14, -100, <<"w">>, DEBIT, <<>>, BOOKED)],
       [stem |-> "100",
        data |-> Entry(<<"f", "2">>, 15, 200, <<"w">>, CREDIT, <<>>, BOOKED)],
       [stem |-> "100",
        data |-> Entry(<<"g", "1">>, 15, -5000, <<"m", "v">>, DEBIT, Umbuchung, BOOKED)],
       [stem |-> "200",
        data |-> Entry(<<"g", "2">>, 16, 5000, <<"m", "v">>, CREDIT, Umbuchung, BOOKED)],
       [stem |-> "200",
        data |-> Entry(<<"f", "3">>, 46, -300, <<"w">>, DEBIT, <<>>, BOOKED)],
       \* a transfer whose credit side is met first and is dated later
       [stem |-> "100",
        data |-> Entry(<<"g", "3">>, 48, 7000, <<"i", "n">>, CREDIT, Umbuchung, BOOKED)],
       [stem |-> "200",
        data |-> Entry(<<"g", "4">>, 47, -7000, <<"o", "u", "t">>, DEBIT, Umbuchung, BOOKED)] >>

\* values of BAEZI_MIN_DATE / --min-date
MinDates ==
    { DefaultMinDate,
      <<"2", "0", "2", "4", "-", "1", "-", "1", "5">>,
      <<"2", "0", "2", "4", "-", "0", "2", "-", "1", "5">>,
      <<"2", "0", "2", "4", "-", "0", "2", "-", "3", "0">>,
      <<"1", "5", ".", "0", "1", ".", "2", "0", "2", "4">> }

Configs ==
    {[DefaultConfig EXCEPT !.min_booking_date = d] : d \in MinDates}
    \cup {[DefaultConfig EXCEPT !.api_token = <<>>],
          [DefaultConfig EXCEPT !.json_folder_exists = FALSE]}

InitFilter ==
    /\ phase = "config"
    /\ MatchIdle
    /\ CodecIdle
    /\ LaunchIdle
    /\ GatewayIdle
    /\ \E src \in SelectionsOf(FilterCatalogue) : files = FilesOf(src)
    /\ account_map = MappedAccounts
    /\ config \in Configs
    /\ \E server \in Servers :
          /\ ledger = server.ledger
          /\ server_categories = server.categories
          /\ category_map = server.categories
          /\ transfer_cats = server.cats
    /\ cursor = NoCursor
    /\ stats = NoStats
    /\ calls = <<>>
    /\ last = "init"
    /\ run = 1
    /\ history = <<>>
    /\ exit_code = -1

\* main: config.validate(), sys.exit(1) on ValueError
Validate ==
    /\ phase = "config"
    /\ IF validate(config) = "ok"
       THEN /\ phase' = "load"
            /\ exit_code' = exit_code
            /\ last' = "validated"
       ELSE /\ phase' = "rejected"
            /\ exit_code' = 1
            /\ last' = "invalid configuration"
    /\ UNCHANGED <<matchVars, codecVars, inputVars, gatewayVars, ledger, server_categories,
                   category_map, transfer_cats, cursor, stats, calls, run, history>>

NextFilter == Validate \/ NextRun

SpecFilter == InitFilter /\ [][NextFilter]_vars

\* C15: under a validated configuration, a step at a booked entry that parses
\* keeps the entry when its booking date is the minimum date or later (it is
\* counted as skipped, collected, or has a create call made for it) and drops
\* it when it is earlier, with no create call, nothing collected and the
\* counters unchanged.
C15_DateBoundary ==
    [][(AtRecord /\ get_BookgSts(CurrentData) = "BOOK" /\ CurrentParse.exc = "none")
        => LET tx == CurrentParse.tx
           IN  IF tx.booking_date < MinDay(config)
               THEN /\ stats' = stats
                    /\ calls' = calls
                    /\ transfers' = transfers
               ELSE IF tx.id \in existing_ids
               THEN stats'.skipped = stats.skipped + 1
               ELSE IF is_transfer(tx)
               THEN transfers' = Append(transfers, tx)
               ELSE Len(calls') = Len(calls) + 1]_vars

\* C16: a step at a booked entry that parses, passes the date filter and
\* whose id is in existing_ids adds exactly one to the skipped
\* counter and nothing else: no category is created, no create call is made,
\* the transfer batch, the ledger and existing_ids stay as they are.
C16_ExistingSkipped ==
    [][(/\ AtRecord
        /\ get_BookgSts(CurrentData) = "BOOK"
        /\ CurrentParse.exc = "none"
        /\ ~before_min_date(CurrentParse.tx, config)
        /\ CurrentParse.tx.id \in existing_ids)
        => /\ stats' = [stats EXCEPT !.skipped = @ + 1]
           /\ calls' = calls
           /\ category_map' = category_map
           /\ server_categories' = server_categories
           /\ transfers' = transfers
           /\ ledger' = ledger
           /\ existing_ids' = existing_ids
           /\ phase' = "direct"
           /\ cursor' = [cursor EXCEPT !.record = @ + 1]]_vars

\* an entry with a category whose id was loaded from the target ledger has
\* just been skipped
C16_Witness ==
    /\ phase = "direct"
    /\ last = "skipped"
    /\ stats.skipped = 1
    /\ calls = <<>>
    /\ cursor.record > 1
    /\ cursor.file <= Len(files)
    /\ LET r == from_json(CurrentFile.records[cursor.record - 1], CurrentFile.stem)
       IN  /\ r.exc = "none"
           /\ r.tx.id \in existing_ids
           /\ r.tx.category # <<>>

\* the phase changes of a run
PhaseSteps ==
    {<<"load", "direct">>, <<"direct", "transfers">>, <<"transfers", "summary">>,
     <<"direct", "aborted">>}

\* every mapped file has been gone through to its end
AllFilesDone == cursor.file > Len(files)

\* C17: within a run the phase only moves load -> direct -> transfers ->
\* summary (or ends in the direct pass), the transfer pass starts only when
\* every file has been gone through; in the direct pass an entry that
\* survives the filters is collected without a create call when its category
\* is the transfer marker and has a create call made for it in the same step
\* otherwise; create calls for pairs and unmatched transfers are made in the
\* transfer pass only.
C17_PhaseOrder ==
    [][run' = run =>
        /\ phase' # phase => <<phase, phase'>> \in PhaseSteps
        /\ (phase = "direct" /\ phase' = "transfers") => AllFilesDone
        /\ (/\ AtRecord
            /\ get_BookgSts(CurrentData) = "BOOK"
            /\ CurrentParse.exc = "none"
            /\ ~before_min_date(CurrentParse.tx, config)
            /\ CurrentParse.tx.id \notin existing_ids)
           => IF CurrentParse.tx.category = Umbuchung
              THEN /\ calls' = calls
                   /\ transfers' = Append(transfers, CurrentParse.tx)
              ELSE /\ Len(calls') = Len(calls) + 1
                   /\ calls'[Len(calls')].kind = "single"
                   /\ calls'[Len(calls')].src = CurrentParse.tx
                   /\ transfers' = transfers
        /\ Len(calls') > Len(calls) =>
              IF calls'[Len(calls')].kind = "single"
              THEN /\ phase = "direct"
                   /\ calls'[Len(calls')].src.category # Umbuchung
              ELSE /\ phase = "transfers"
                   /\ AllFilesDone
                   /\ SourceIds(calls'[Len(calls')].kind, calls'[Len(calls')].src)
                         \subseteq {transfers[i].id : i \in 1..Len(transfers)}]_vars

\* a run has reached the summary after a create call in the direct pass and
\* one in the transfer pass
C17_Witness ==
    /\ phase = "summary"
    /\ Len(transfers) > 0
    /\ \E i \in 1..Len(calls), j \in 1..Len(calls) :
          /\ i < j
          /\ calls[i].kind = "single"
          /\ calls[j].kind \in {"pair", "unmatched"}

\* the debit-side and the credit-side record of a pair
DebitOf(pair) == CHOOSE t \in {pair.source_tx, pair.dest_tx} : t.direction = DEBIT

CreditOf(pair) == CHOOSE t \in {pair.source_tx, pair.dest_tx} : t.direction = CREDIT

\* C18: the create call made for a matched pair is of transfer type, from
\* the account mapped from the debit side's source account to the account
\* mapped from the credit side's, with equal source and destination amounts,
\* dated at the earlier of the two booking dates, and its comment carries the
\* combined id; when it succeeds the transfer counter rises by one and the
\* transaction counter stays; at the summary every matched pair has had
\* exactly one such call.
C18_PairImport ==
    [][/\ (Len(calls') = Len(calls) + 1 /\ calls'[Len(calls')].kind = "pair")
          => LET c == calls'[Len(calls')]
                 pair == c.src
                 debit == DebitOf(pair)
                 credit == CreditOf(pair)
             IN  /\ c.payload.type = TRANSFER
                 /\ c.payload.sourceAccountId = account_map[debit.account_id]
                 /\ c.payload.destinationAccountId = account_map[credit.account_id]
                 /\ c.payload.sourceAmount = debit.amount
                 /\ c.payload.destinationAmount = c.payload.sourceAmount
                 /\ c.payload.time = Min({debit.booking_date, credit.booking_date})
                 /\ StrContains(c.payload.comment,
                                B4ID_PREFIX \o pair.source_tx.id \o <<"_">>
                                \o pair.dest_tx.id \o <<"]">>)
                 /\ stats'.new_transfers = stats.new_transfers + (IF c.ok THEN 1 ELSE 0)
                 /\ stats'.new_transactions = stats.new_transactions
       /\ phase' = "summary"
          => \A k \in 1..Len(matched_pairs') :
                Cardinality({i \in 1..Len(calls') :
                                calls'[i].kind = "pair"
                                /\ calls'[i].src = matched_pairs'[k]}) = 1]_vars

\* a pair whose first record is the credit side, dated later than the debit
\* side, has been imported as a transfer
C18_Witness ==
    \E i \in 1..Len(calls) :
        /\ calls[i].kind = "pair"
        /\ calls[i].ok
        /\ calls[i].src.source_tx.direction = CREDIT
        /\ calls[i].src.dest_tx.booking_date < calls[i].src.source_tx.booking_date
        /\ stats.new_transfers = 1

\* C19: the type of the record parsed from an entry is 4 (transfer) when the
\* entry's Category is the transfer marker, whatever its direction, and
\* otherwise 2 (income) for CRDT and 3 (expense) for DBIT; the create call of a
\* directly imported record carries that type.
C19_TransactionType ==
    /\ (AtRecord /\ CurrentParse.exc = "none")
       => LET ty == transaction_type(CurrentParse.tx)
          IN  IF "Category" \in CurrentData.fields /\ CurrentData.Category = Umbuchung
              THEN ty = 4
              ELSE IF CurrentData.CdtDbtInd = "CRDT" THEN ty = 2 ELSE ty = 3
    /\ \A i \in 1..Len(calls) :
          calls[i].kind = "single"
          => calls[i].payload.type = (IF calls[i].src.direction = "CRDT" THEN 2 ELSE 3)

\* the run is at a credit entry with the transfer marker after another
\* credit entry was imported as an income
C19_Witness ==
    /\ AtRecord
    /\ CurrentParse.exc = "none"
    /\ CurrentData.Category = Umbuchung
    /\ CurrentData.CdtDbtInd = "CRDT"
    /\ \E i \in 1..Len(calls) :
          /\ calls[i].kind = "single"
          /\ calls[i].src.direction = "CRDT"
          /\ calls[i].payload.type = 2

\* the first run has reached the summary on: account 100 holding the credit
\* t1 (Salary, 50.00) and the debit t2 (transfer marker, 50.00), no other
\* entries, a target ledger that was empty, every API call having succeeded
ScenarioDone ==
    /\ phase = "summary"
    /\ run = 1
    /\ files[1].records = <<Catalogue[1].data, Catalogue[2].data>>
    /\ \A f \in 2..Len(files) : files[f].records = <<>>
    /\ history[1].loaded
    /\ FailedCalls = {}
    /\ Len(ledger) = Len(calls)
    /\ stats.new_categories = 1

\* C20: in that scenario t1 was imported as an income of 5000 minor units and
\* t2, left unmatched, as an expense with the external-transfer expense
\* category and a description that starts with the external flag; the counters
\* are new_transactions = 2, new_transfers = 0, errors = 0.
C20_Scenario ==
    ScenarioDone
    => /\ Len(calls) = 2
       /\ calls[1].kind = "single"
       /\ calls[1].src.id = <<"t", "1">>
       /\ calls[1].payload.type = INCOME
       /\ calls[1].payload.sourceAmount = 5000
       /\ Len(transfers) = 1
       /\ matched_pairs = <<>>
       /\ calls[2].kind = "unmatched"
       /\ calls[2].src.id = <<"t", "2">>
       /\ calls[2].payload.type = EXPENSE
       /\ calls[2].payload.categoryId = transfer_cats.expense
       /\ StartsAt(calls[2].payload.comment,
                   <<"[", "E", "x", "t", "e", "r", "n", "]", " ">>, 1)
       /\ stats.new_transactions = 2
       /\ stats.new_transfers = 0
       /\ stats.errors = 0

-----------------------------------------------------------------------------
(* Specification SpecLoad: phase 1 alone.  get_all_transactions pages        *)
(* through the target ledger's answers, one request per step, and            *)
(* _load_existing_ids reads the markers of what it returned.                 *)
(* target.pages[k] is the answer to the request for page k: kind "ok" (a     *)
(* response with success and items), "fail" (a response without success) or  *)
(* "raise" (_request raises APIError); target.beyond says what is answered   *)
(* past the listed pages.  The comment of a target transaction is            *)
(* [kind, text]: a string, null, or absent.                                  *)

MaxPages == 3

MaxPageSize == 2

StrComment(text) == [kind |-> "str", text |-> text]

\* comments found on target transactions
SampleComments ==
    << StrComment(<<"r", "e", "n", "t">>),
       StrComment(final_comment(<<"p", "a", "y">>, <<"t", "1">>)),
       StrComment(final_comment(<<"m", "v">>, <<"t", "2", "_", "t", "3">>)),
       \* the prefix token without a closing bracket
       StrComment(<<"x", " ">> \o B4ID_PREFIX \o <<"a", "b">>),
       \* an empty payload
       StrComment(<<"x", " ">> \o B4ID_PREFIX \o <<"]">>),
       [kind |-> "null", text |-> <<>>],
       [kind |-> "absent", text |-> <<>>] >>

\* the j-th transaction of page k of a ledger whose comments start at offset
TargetTx(k, j, offset) ==
    LET n == (k - 1) * (MaxPageSize + 1) + j
    IN  [id |-> n, comment |-> SampleComments[((n + offset) % Len(SampleComments)) + 1]]

\* what the server may answer to one page request of size ps
PageShapes(ps) ==
    {[kind |-> "ok", n |-> n] : n \in 0..(ps + 1)}
    \cup {[kind |-> "fail", n |-> 0], [kind |-> "raise", n |-> 0]}

PageOf(shape, k, offset) ==
    [kind |-> shape.kind,
     items |-> [j \in 1..shape.n |-> TargetTx(k, j, offset)]]

\* self._request("GET", f"transactions/list.json?page={page}&count={page_size}")
get_transactions(tg, page) ==
    IF page <= Len(tg.pages)
    THEN tg.pages[page]
    ELSE IF tg.beyond = "repeat" /\ tg.pages # <<>>
         THEN tg.pages[Len(tg.pages)]
         ELSE [kind |-> "ok", items |-> <<>>]

\* one iteration of the loop of get_all_transactions on the response resp
get_page_step_until_empty(pg, resp, page_size) ==
    LET asked == [pg EXCEPT !.requested = Append(@, pg.page)]
    IN  IF resp.kind = "raise"
        THEN [asked EXCEPT !.state = "raised"]
        ELSE IF resp.kind = "fail" \/ resp.items = <<>>
        THEN [asked EXCEPT !.state = "returned"]
        ELSE [asked EXCEPT !.all_transactions = @ \o resp.items, !.page = @ + 1]

get_page_step(pg, resp, page_size) ==
    LET asked == [pg EXCEPT !.requested = Append(@, pg.page)]
    IN  IF resp.kind = "raise"
        THEN [asked EXCEPT !.state = "raised"]
        ELSE IF resp.kind = "fail" \/ resp.items = <<>>
        THEN [asked EXCEPT !.state = "returned"]
        ELSE IF Len(resp.items) < page_size
        THEN [asked EXCEPT !.all_transactions = @ \o resp.items,
                           !.state = "returned"]
        ELSE [asked EXCEPT !.all_transactions = @ \o resp.items, !.page = @ + 1]

\* the loop over the fetched transactions in _load_existing_ids: the ids
\* added to all_b4_ids, and whether an exception ended the loop
RECURSIVE read_markers(_, _, _)
read_markers(txs, i, ids) ==
    IF i > Len(txs)
    THEN [ids |-> ids, exc |-> FALSE]
    ELSE IF txs[i].comment.kind = "null"
    THEN [ids |-> ids, exc |-> TRUE]
    ELSE IF txs[i].comment.kind = "absent"
    THEN read_markers(txs, i + 1, ids)
    ELSE read_markers(txs, i + 1, ids \cup comment_ids(txs[i].comment.text))

InitLoad ==
    /\ phase = "load"
    /\ MatchIdle
    /\ CodecIdle
    /\ LaunchIdle
    /\ files = <<>>
    /\ account_map = <<>>
    /\ \E ps \in 1..MaxPageSize, offset \in 0..(Len(SampleComments) - 1) :
          /\ config = [DefaultConfig EXCEPT !.page_size = ps]
          /\ \E n \in 0..MaxPages, beyond \in {"empty", "repeat"} :
                \E shapes \in [1..n -> PageShapes(ps)] :
                   target = [NoTarget EXCEPT
                                !.pages = [k \in 1..n |-> PageOf(shapes[k], k, offset)],
                                !.beyond = beyond]
    /\ ledger = <<>>
    /\ server_categories = <<>>
    /\ category_map = <<>>
    /\ transfer_cats = NoTransferCats
    /\ cursor = NoCursor
    /\ stats = NoStats
    /\ calls = <<>>
    /\ last = "init"
    /\ run = 1
    /\ history = <<>>
    /\ exit_code = -1
    /\ pager = [NoPager EXCEPT !.state = "fetching"]

\* get_all_transactions: one pass through the loop
GetPage ==
    /\ phase = "load"
    /\ pager.state = "fetching"
    /\ pager.page <= MaxPages + 1
    /\ pager' = get_page_step(pager, get_transactions(target, pager.page),
                              config.page_size)
    /\ last' = "page"
    /\ UNCHANGED <<phase, matchVars, codecVars, inputVars, target, ledger,
                   server_categories, category_map, transfer_cats, cursor, stats,
                   calls, run, history, exit_code>>

\* _load_existing_ids once get_all_transactions has returned or raised
ReadMarkers ==
    /\ phase = "load"
    /\ pager.state \in {"returned", "raised"}
    /\ LET r == read_markers(pager.all_transactions, 1, {})
       IN  IF pager.state = "raised"
           THEN /\ existing_ids' = {}
                /\ last' = "load failed"
           ELSE /\ existing_ids' = r.ids
                /\ last' = IF r.exc THEN "load failed" ELSE "loaded"
    /\ phase' = "direct"
    /\ cursor' = NoCursor
    /\ UNCHANGED <<transfers, matched_pairs, unmatched, trace, codecVars, inputVars,
                   gatewayVars, ledger, server_categories, category_map,
                   transfer_cats, stats, calls, run, history, exit_code>>

NextLoad == GetPage \/ ReadMarkers

\* the loop of get_all_transactions keeps running until it breaks
SpecLoad == InitLoad /\ [][NextLoad]_vars /\ WF_pager(GetPage)

\* the requests of get_all_transactions that met a failure
FailedRequests ==
    {k \in Range(pager.requested) : get_transactions(target, k).kind \in {"fail", "raise"}}

\* phase 1 met a failure: while fetching a page, or while reading a comment
LoadFailed ==
    \/ FailedRequests # {}
    \/ read_markers(pager.all_transactions, 1, {}).exc

\* C21: when fetching the existing transactions or reading any of them fails
\* (first page, later page, comment of the k-th transaction), phase 1 ends
\* with the empty id set, never a partly filled one, and the direct pass starts.
C21_LoadFailureEmpty ==
    (phase = "direct" /\ LoadFailed) => existing_ids = {}

\* the text after the first prefix token of a comment that holds one
after_prefix(c) == StrSplit(c, B4ID_PREFIX)[2]

\* a comment carries a marker when the prefix token is followed by a
\* non-empty payload and a closing bracket
has_marker(c) ==
    /\ StrContains(c, B4ID_PREFIX)
    /\ StrContains(after_prefix(c), <<"]">>)
    /\ raw_id_str(c) # <<>>

\* the fetched transactions whose comment is a string
FetchedComments ==
    {pager.all_transactions[i].comment.text :
        i \in {j \in 1..Len(pager.all_transactions) :
                  pager.all_transactions[j].comment.kind = "str"}}

\* C22: a target transaction without a marker or with a malformed one (no
\* closing bracket, empty payload) adds no id: the loaded set is exactly what
\* the transactions with a marker contribute.
C22_MalformedIgnored ==
    (phase = "direct" /\ ~LoadFailed) =>
        existing_ids = UNION {comment_ids(c) : c \in {d \in FetchedComments : has_marker(d)}}

\* page k is answered with success and at least page_size items
FullPage(k) ==
    /\ get_transactions(target, k).kind = "ok"
    /\ Len(get_transactions(target, k).items) >= config.page_size

\* page k is answered with success and is empty or short
LastPage(k) ==
    /\ get_transactions(target, k).kind = "ok"
    /\ Len(get_transactions(target, k).items) < config.page_size

\* the items of pages 1..n, in page order
RECURSIVE ItemsUpTo(_)
ItemsUpTo(n) ==
    IF n = 0 THEN <<>> ELSE ItemsUpTo(n - 1) \o get_transactions(target, n).items

\* pages are requested in the order 1, 2, ..., and none after an empty or
\* short one
PagesInOrder ==
    /\ \A i \in 1..Len(pager.requested) : pager.requested[i] = i
    /\ \A i \in 1..(Len(pager.requested) - 1) : ~LastPage(i)

\* what get_all_transactions returns when every request was answered with
\* success
PagesConcatenated ==
    (pager.state = "returned" /\ FailedRequests = {}) =>
        /\ pager.requested # <<>>
        /\ LastPage(Len(pager.requested))
        /\ pager.all_transactions = ItemsUpTo(Len(pager.requested))

\* the server answers every page with success and some page is empty or short
ServerEndsPages ==
    \E k \in 1..(MaxPages + 1) :
       /\ LastPage(k)
       /\ \A j \in 1..(k - 1) : FullPage(j)

\* C23: get_all_transactions requests pages 1, 2, ... in order, returns the
\* items of all pages up to and including the first empty or short one in page
\* order, requests no page after it, and returns whenever the server
\* eventually answers with such a page.
C23_Pagination ==
    /\ [](PagesInOrder /\ PagesConcatenated)
    /\ (ServerEndsPages ~> pager.state = "returned")

\* the number of transactions is an exact multiple of page_size: two full
\* pages, then an empty one, and the call has returned all of them
C23_Witness ==
    /\ pager.state = "returned"
    /\ pager.requested = <<1, 2, 3>>
    /\ Len(get_transactions(target, 1).items) = config.page_size
    /\ Len(get_transactions(target, 2).items) = config.page_size
    /\ get_transactions(target, 3) = [kind |-> "ok", items |-> <<>>]
    /\ Len(pager.all_transactions) = 2 * config.page_size

-----------------------------------------------------------------------------
(* Specification SpecStartup: main from the health check on.  The account    *)
(* map, the category map and the transfer categories are loaded from the     *)
(* target ledger's answers, then run_import runs with them.  target.accounts *)
(* is the result of accounts/list.json, target.tree the result of            *)
(* transaction/categories/list.json as the sequence of its (type, list)      *)
(* items; each request is answered "ok" (success), "fail" (a response        *)
(* without success) or "raise" (_request raises APIError).                   *)

\* str.find(p, start), 1-based; 0 when p does not occur in s[start:]
StrFindFrom(s, p, start) ==
    LET hits == {i \in start..(Len(s) + 1) : StartsAt(s, p, i)}
    IN IF hits = {} THEN 0 ELSE Min(hits)

UpperCase ==
    <<"A", "B", "C", "D", "E", "F", "G", "H", "I", "J", "K", "L", "M">>
    \o <<"N", "O", "P", "Q", "R", "S", "T", "U", "V", "W", "X", "Y", "Z">>

LowerCase ==
    <<"a", "b", "c", "d", "e", "f", "g", "h", "i", "j", "k", "l", "m">>
    \o <<"n", "o", "p", "q", "r", "s", "t", "u", "v", "w", "x", "y", "z">>

\* str.lower()
Lower(s) ==
    [i \in 1..Len(s) |->
        IF \E k \in 1..Len(UpperCase) : UpperCase[k] = s[i]
        THEN LowerCase[CHOOSE k \in 1..Len(UpperCase) : UpperCase[k] = s[i]]
        ELSE s[i]]

B4ACCID_PREFIX == <<"[", "B", "4", "A", "c", "c", "I", "D", ":">>

\* Account.from_api_response: b4_account_id of a comment that is a string;
\* <<>> stands for None
b4_account_id(c) ==
    IF ~StrContains(c, B4ACCID_PREFIX)
    THEN <<>>
    ELSE LET start == StrFind(c, B4ACCID_PREFIX) + Len(B4ACCID_PREFIX)
             end == StrFindFrom(c, <<"]">>, start)
         IN  IF end > start THEN SubSeq(c, start, end - 1) ELSE <<>>

\* the characters of the file stems
StemChars ==
    ("100" :> <<"1", "0", "0">>) @@ ("200" :> <<"2", "0", "0">>)
    @@ ("300" :> <<"3", "0", "0">>)

\* the source account id a marker value names
StemOf(chars) ==
    IF \E s \in DOMAIN StemChars : StemChars[s] = chars
    THEN CHOOSE s \in DOMAIN StemChars : StemChars[s] = chars
    ELSE "other"

\* the loop of load_account_map over resp["result"]: the map built, or the
\* exception Account.from_api_response raises on a comment that is no string
RECURSIVE account_map_loop(_, _, _)
account_map_loop(accounts, i, amap) ==
    IF i > Len(accounts)
    THEN [exc |-> FALSE, map |-> amap]
    ELSE IF accounts[i].comment.kind = "null"
    THEN [exc |-> TRUE, map |-> amap]
    ELSE LET c == IF accounts[i].comment.kind = "absent"
                  THEN <<>>
                  ELSE accounts[i].comment.text
             b4 == b4_account_id(c)
         IN  IF b4 # <<>>
             THEN account_map_loop(accounts, i + 1,
                                   (StemOf(b4) :> accounts[i].id) @@ amap)
             ELSE account_map_loop(accounts, i + 1, amap)

AccountMarker(id) == B4ACCID_PREFIX \o id \o <<"]">>

TargetAccount(id, text) == [id |-> id, comment |-> StrComment(text)]

\* what accounts/list.json lists
AccountLists ==
    { <<>>,
      << TargetAccount("acc-1", <<"G", "i", "r", "o", " ">> \o AccountMarker(StemChars["100"])),
         TargetAccount("acc-2", AccountMarker(StemChars["200"])) >>,
      \* one target account for two source accounts
      << TargetAccount("acc-1", AccountMarker(StemChars["100"])
                                \o AccountMarker(StemChars["200"])) >>,
      \* an empty marker, a marker without closing bracket, no marker
      << TargetAccount("acc-1", AccountMarker(<<>>)),
         TargetAccount("acc-2", B4ACCID_PREFIX \o StemChars["200"]),
         TargetAccount("acc-3", <<"c", "a", "s", "h">>) >>,
      \* a comment that is null
      << TargetAccount("acc-1", AccountMarker(StemChars["100"])),
         [id |-> "acc-2", comment |-> [kind |-> "null", text |-> <<>>]] >>,
      \* no comment, and two accounts with the same marker
      << TargetAccount("acc-1", AccountMarker(StemChars["100"])),
         [id |-> "acc-2", comment |-> [kind |-> "absent", text |-> <<>>]],
         TargetAccount("acc-3", AccountMarker(StemChars["100"])) >> }

\* a category as categories/list.json lists it
TargetCategory(name, id, subs) == [name |-> name, id |-> id, subCategories |-> subs]

TermAllgemein == <<"a", "l", "l", "g", "e", "m", "e", "i", "n">>

TermTransfer == <<"t", "r", "a", "n", "s", "f", "e", "r">>

TermBank == <<"b", "a", "n", "k">>

TermWeisung == <<"w", "e", "i", "s", "u", "n", "g">>

TermExtern == <<"e", "x", "t", "e", "r", "n">>

\* the top-level categories a category type may hold; t is the type as the
\* response spells it
TransferMain(t) ==
    TargetCategory(<<"A", "l", "l", "g", "e", "m", "e", "i", "n", " ", "T", "r", "a", "n", "s", "f", "e", "r">>, <<t, "0">>,
        << TargetCategory(<<"U", "e", "b", "e", "r", "w", "e", "i", "s", "u", "n", "g">>, <<t, "1">>, <<>>),
           TargetCategory(<<"B", "a", "n", "k", "u", "e", "b", "e", "r", "w", "e", "i", "s", "u", "n", "g">>, <<t, "2">>, <<>>),
           TargetCategory(<<"B", "a", "n", "k", "u", "e", "b", "e", "r", "w", "e", "i", "s", "u", "n", "g", " ", "(", "e", "x", "t", "e", "r", "n", ")">>, <<t, "3">>, <<>>) >>)

ExternMain(t) ==
    TargetCategory(<<"T", "R", "A", "N", "S", "F", "E", "R", " ", "a", "l", "l", "g", "e", "m", "e", "i", "n">>, <<t, "9">>,
        << TargetCategory(<<"B", "A", "N", "K", "U", "E", "B", "E", "R", "W", "E", "I", "S", "U", "N", "G", " ", "E", "X", "T", "E", "R", "N">>, <<t, "4">>, <<>>),
           TargetCategory(<<"E", "x", "t", "e", "r", "n", " ", "B", "a", "n", "k", " ", "2">>, <<t, "5">>, <<>>) >>)

OtherMain(t) ==
    TargetCategory(<<"F", "o", "o", "d">>, <<t, "6">>,
        << TargetCategory(<<"B", "a", "n", "k", "u", "e", "b", "e", "r", "w", "e", "i", "s", "u", "n", "g">>, <<t, "7">>, <<>>),
           TargetCategory(<<"B", "a", "n", "k", " ", "e", "x", "t", "e", "r", "n">>, <<t, "8">>, <<>>) >>)

\* category trees of the target ledger
CategoryTrees ==
    { <<>>,
      << [type |-> "1", categories |-> <<TransferMain("1")>>],
         [type |-> "2", categories |-> <<TransferMain("2")>>] >>,
      << [type |-> "1", categories |-> <<OtherMain("1"), TransferMain("1")>>],
         [type |-> "2", categories |-> <<>>] >>,
      << [type |-> "1", categories |-> <<>>],
         [type |-> "2", categories |-> <<ExternMain("2")>>] >>,
      << [type |-> "1", categories |-> <<OtherMain("1")>>],
         [type |-> "2", categories |-> <<OtherMain("2"), TransferMain("2")>>] >>,
      << [type |-> "2", categories |-> <<ExternMain("2"), OtherMain("2")>>],
         [type |-> "1", categories |-> <<ExternMain("1"), TransferMain("1")>>] >> }

\* int(c_type_str)
CatType(t) == IF t = "1" THEN 1 ELSE 2

\* the (key, id) entries load_categories writes for one top-level category,
\* in the order it writes them
main_entries(c_type, main) ==
    <<[key |-> CatKey(c_type, main.name), id |-> main.id]>>
    \o [j \in 1..Len(main.subCategories) |->
          [key |-> CatKey(c_type, main.name \o <<":">> \o main.subCategories[j].name),
           id |-> main.subCategories[j].id]]

\* a dict filled in the order of entries
RECURSIVE dict_of(_)
dict_of(entries) ==
    IF entries = <<>>
    THEN <<>>
    ELSE LET e == entries[Len(entries)]
         IN  (e.key :> e.id) @@ dict_of(SubSeq(entries, 1, Len(entries) - 1))

\* load_categories on a response with success: cat_map
load_categories(tree) ==
    dict_of(Flatten([k \in 1..Len(tree) |->
                Flatten([m \in 1..Len(tree[k].categories) |->
                            main_entries(CatType(tree[k].type),
                                         tree[k].categories[m])])]))

\* "allgemein" in main["name"].lower() and "transfer" in main["name"].lower()
is_transfer_main(main) ==
    /\ StrContains(Lower(main.name), TermAllgemein)
    /\ StrContains(Lower(main.name), TermTransfer)

\* the sub-categories of the matching top-level categories with their type,
\* in the order the loops meet them
transfer_subs(tree) ==
    Flatten([k \in 1..Len(tree) |->
        Flatten([m \in 1..Len(tree[k].categories) |->
            IF is_transfer_main(tree[k].categories[m])
            THEN [j \in 1..Len(tree[k].categories[m].subCategories) |->
                     [c_type |-> CatType(tree[k].type),
                      sub |-> tree[k].categories[m].subCategories[j]]]
            ELSE <<>>])])

is_internal_sub_any_bank(sub) ==
    /\ StrContains(Lower(sub.name), TermBank)
    /\ StrContains(Lower(sub.name), TermWeisung)

\* the test of _find_transfer_category on a sub-category
is_internal_sub(sub) ==
    /\ StrContains(Lower(sub.name), TermBank)
    /\ StrContains(Lower(sub.name), TermWeisung)
    /\ ~StrContains(Lower(sub.name), TermExtern)

\* the test of _find_external_transfer_categories on a sub-category
is_external_sub(sub) ==
    /\ StrContains(Lower(sub.name), TermExtern)
    /\ StrContains(Lower(sub.name), TermBank)

\* _find_transfer_category on the response (kind, tree)
find_transfer_category(kind, tree) ==
    IF kind = "fail"
    THEN NEUTRAL
    ELSE LET hits == SelectSeq(transfer_subs(tree), LAMBDA e : is_internal_sub(e.sub))
         IN  IF hits = <<>> THEN NEUTRAL ELSE hits[1].sub.id

\* _find_external_transfer_categories on the response (kind, tree)
find_external_transfer_categories(kind, tree) ==
    IF kind = "fail"
    THEN [income |-> NEUTRAL, expense |-> NEUTRAL]
    ELSE LET hits(t) == SelectSeq(transfer_subs(tree),
                                  LAMBDA e : e.c_type = t /\ is_external_sub(e.sub))
             last_id(h) == IF h = <<>> THEN NEUTRAL ELSE h[Len(h)].sub.id
         IN  [income |-> last_id(hits(1)), expense |-> last_id(hits(2))]

\* the entries of the source files
StartupCatalogue ==
    << [stem |-> "100",
        data |-> Entry(<<"s", "1">>, 32, 5000, <<"p", "a", "y">>, CREDIT, Salary, BOOKED)],
       [stem |-> "100",
        data |-> Entry(<<"s", "2">>, 33, -900, <<"m", "v">>, DEBIT, Umbuchung, BOOKED)],
       [stem |-> "200",
        data |-> Entry(<<"s", "3">>, 34, 900, <<"m", "v">>, CREDIT, Umbuchung, BOOKED)],
       [stem |-> "300",
        data |-> Entry(<<"s", "4">>, 35, -100, <<"y">>, DEBIT, <<>>, BOOKED)] >>

Answers == {"ok", "fail", "raise"}

InitStartup ==
    /\ phase = "health"
    /\ MatchIdle
    /\ CodecIdle
    /\ LaunchIdle
    /\ \E src \in SelectionsOf(StartupCatalogue) : files = FilesOf(src)
    /\ account_map = <<>>
    /\ config = DefaultConfig
    /\ \E accounts \in AccountLists, tree \in CategoryTrees :
          target = [NoTarget EXCEPT !.accounts = accounts, !.tree = tree]
    /\ pager = NoPager
    /\ ledger = <<>>
    /\ server_categories = <<>>
    /\ category_map = <<>>
    /\ transfer_cats = NoTransferCats
    /\ cursor = NoCursor
    /\ stats = NoStats
    /\ calls = <<>>
    /\ last = "init"
    /\ run = 1
    /\ history = <<>>
    /\ exit_code = -1

\* main: api_client.health_check(), sys.exit(1) when it fails
HealthCheck ==
    /\ phase = "health"
    /\ \E ok \in BOOLEAN :
          IF ok
          THEN /\ phase' = "accounts"
               /\ exit_code' = exit_code
               /\ last' = "healthy"
          ELSE /\ phase' = "rejected"
               /\ exit_code' = 1
               /\ last' = "unreachable"
    /\ UNCHANGED <<matchVars, codecVars, inputVars, gatewayVars, ledger,
                   server_categories, category_map, transfer_cats, cursor, stats,
                   calls, run, history>>

\* main: account_service.load_account_map(); an exception reaches main's
\* `except Exception` and the process exits with 1
LoadAccountMap ==
    /\ phase = "accounts"
    /\ \E answer \in Answers :
          LET r == account_map_loop(target.accounts, 1, <<>>)
          IN  IF answer = "raise" \/ (answer = "ok" /\ r.exc)
              THEN /\ phase' = "aborted"
                   /\ exit_code' = 1
                   /\ last' = IF answer = "raise" THEN "accounts raised"
                                                  ELSE "accounts crashed"
                   /\ account_map' = account_map
              ELSE /\ phase' = "categories"
                   /\ exit_code' = exit_code
                   /\ last' = IF answer = "ok" THEN "accounts loaded"
                                               ELSE "accounts not loaded"
                   /\ account_map' = IF answer = "ok" THEN r.map ELSE account_map
    /\ UNCHANGED <<matchVars, codecVars, files, config, launchVars, gatewayVars, ledger,
                   server_categories, category_map, transfer_cats, cursor, stats,
                   calls, run, history>>

\* main: category_service.load_categories()
LoadCategories ==
    /\ phase = "categories"
    /\ \E answer \in Answers :
          IF answer = "raise"
          THEN /\ phase' = "aborted"
               /\ exit_code' = 1
               /\ last' = "categories raised"
               /\ category_map' = category_map
          ELSE /\ phase' = "transfer categories"
               /\ exit_code' = exit_code
               /\ last' = IF answer = "ok" THEN "categories loaded"
                                           ELSE "categories not loaded"
               /\ category_map' = IF answer = "ok"
                                  THEN load_categories(target.tree)
                                  ELSE category_map
    /\ UNCHANGED <<matchVars, codecVars, inputVars, gatewayVars, ledger,
                   server_categories, transfer_cats, cursor, stats, calls, run,
                   history>>

\* main: category_service.load_transfer_categories(), two further requests
\* for the category tree
LoadTransferCategories ==
    /\ phase = "transfer categories"
    /\ \E first \in Answers, second \in Answers :
          IF first = "raise" \/ second = "raise"
          THEN /\ phase' = "aborted"
               /\ exit_code' = 1
               /\ last' = "transfer categories raised"
               /\ transfer_cats' =
                     IF first = "raise"
                     THEN transfer_cats
                     ELSE [transfer_cats EXCEPT
                              !.transfer = find_transfer_category(first, target.tree)]
          ELSE /\ phase' = "load"
               /\ exit_code' = exit_code
               /\ last' = "transfer categories loaded"
               /\ transfer_cats' =
                     LET ext == find_external_transfer_categories(second, target.tree)
                     IN  [transfer |-> find_transfer_category(first, target.tree),
                          income |-> ext.income,
                          expense |-> ext.expense]
    /\ UNCHANGED <<matchVars, codecVars, inputVars, gatewayVars, ledger,
                   server_categories, category_map, cursor, stats, calls, run,
                   history>>

NextStartup ==
    \/ HealthCheck
    \/ LoadAccountMap
    \/ LoadCategories
    \/ LoadTransferCategories
    \/ NextRun

SpecStartup == InitStartup /\ [][NextStartup]_vars

-----------------------------------------------------------------------------
(* Properties of the startup *)

\* some target account's comment holds the account marker with the id of stem
MarkerNames(stem) ==
    \E i \in 1..Len(target.accounts) :
       /\ target.accounts[i].comment.kind = "str"
       /\ StrContains(target.accounts[i].comment.text, AccountMarker(StemChars[stem]))

\* after load_account_map exactly the source accounts named by a marker are
\* mapped
MappedIffMarked ==
    last = "accounts loaded" =>
        \A stem \in DOMAIN StemChars : has_account(account_map, stem) <=> MarkerNames(stem)

\* a file whose stem is not mapped is passed over as a whole
UnmappedFileSkipped ==
    (InDirectPass /\ ~has_account(account_map, CurrentFile.stem)) =>
        /\ cursor' = [cursor EXCEPT !.file = @ + 1, !.record = 1]
        /\ UNCHANGED <<phase, transfers, existing_ids, stats, calls, ledger,
                       category_map, server_categories>>

\* C24: after load_account_map a source account id is mapped if and only if
\* some target account's comment holds the account marker with that id;
\* every file whose stem is not mapped is skipped entirely: no record of it is
\* parsed, counted, imported or collected, and no error is counted.
C24_AccountMapping ==
    /\ []MappedIffMarked
    /\ [][UnmappedFileSkipped]_vars

\* C25: when the initial account load or the initial category load fails (a
\* transport or API error, or a response without success) the map stays empty
\* and the run goes on to the next step instead of being aborted.
C25_LoadDegrades ==
    [][ /\ (phase = "accounts" /\ last' \in {"accounts raised", "accounts not loaded"}
              => phase' = "categories" /\ account_map' = <<>>)
        /\ (phase = "categories" /\ last' \in {"categories raised", "categories not loaded"}
              => phase' = "transfer categories" /\ category_map' = <<>>) ]_vars

\* the sub-categories the tree lists under category type c_type
SubsOfType(c_type) ==
    UNION {UNION {Range(target.tree[k].categories[m].subCategories) :
                     m \in 1..Len(target.tree[k].categories)} :
              k \in {i \in 1..Len(target.tree) : CatType(target.tree[i].type) = c_type}}

\* a category named like an internal transfer: the transfer and banking
\* terms, without the external qualifier, whatever the case
NamedInternal(cat) ==
    /\ StrContains(Lower(cat.name), TermBank)
    /\ StrContains(Lower(cat.name), TermWeisung)
    /\ ~StrContains(Lower(cat.name), TermExtern)

NamedExternal(cat) == StrContains(Lower(cat.name), TermExtern)

\* C30: the internal-transfer category id is "0" or the id of a category
\* whose name holds the transfer and banking terms and not the external
\* qualifier; the external ids are "0" or ids of categories with the external
\* qualifier, income from the type-1 tree and expense from the type-2 tree;
\* when nothing matches the discovery completes with "0".
C30_TransferCategories ==
    /\ \/ transfer_cats.transfer = NEUTRAL
       \/ \E cat \in SubsOfType(1) \cup SubsOfType(2) :
             cat.id = transfer_cats.transfer /\ NamedInternal(cat)
    /\ \/ transfer_cats.income = NEUTRAL
       \/ \E cat \in SubsOfType(1) : cat.id = transfer_cats.income /\ NamedExternal(cat)
    /\ \/ transfer_cats.expense = NEUTRAL
       \/ \E cat \in SubsOfType(2) : cat.id = transfer_cats.expense /\ NamedExternal(cat)
    /\ last = "transfer categories loaded" =>
          /\ phase = "load"
          /\ (\A cat \in SubsOfType(1) \cup SubsOfType(2) : ~NamedInternal(cat))
                => transfer_cats.transfer = NEUTRAL
          /\ (\A cat \in SubsOfType(1) : ~NamedExternal(cat))
                => transfer_cats.income = NEUTRAL
          /\ (\A cat \in SubsOfType(2) : ~NamedExternal(cat))
                => transfer_cats.expense = NEUTRAL

\* all three categories were found in a tree with mixed-case names
C30_Witness ==
    /\ last = "transfer categories loaded"
    /\ transfer_cats = [transfer |-> <<"1", "2">>, income |-> <<"1", "3">>,
                        expense |-> <<"2", "5">>]

-----------------------------------------------------------------------------
(* Specification SpecCategories: ensure_category_hierarchy called again and  *)
(* again on one CategoryService.  calls logs the create_category requests    *)
(* with their outcomes, history the invocations.                             *)

MaxEnsures == 2

CreateOutcomes == {"ok", "rejected", "error", "malformed"}

\* values of tx.category
CategoryPaths ==
    { <<>>, Umbuchung, <<"F">>, <<"F", ":", "O">>, <<" ", "F", " ", ":", " ", "O">> }

InitCategories ==
    /\ phase = "ensure"
    /\ MatchIdle
    /\ CodecIdle
    /\ LaunchIdle
    /\ GatewayIdle
    /\ files = <<>>
    /\ account_map = <<>>
    /\ config = DefaultConfig
    /\ ledger = <<>>
    /\ server_categories = <<>>
    /\ category_map \in {<<>>, (CatKey(1, Salary) :> <<"5">>) @@ (CatKey(2, <<"F">>) :> <<"6">>)}
    /\ transfer_cats = NoTransferCats
    /\ cursor = NoCursor
    /\ stats = NoStats
    /\ calls = <<>>
    /\ last = "init"
    /\ run = 1
    /\ history = <<>>
    /\ exit_code = -1

\* one call of ensure_category_hierarchy(full_path, trans_type, stats)
EnsureHierarchy ==
    /\ phase = "ensure"
    /\ Len(history) < MaxEnsures
    /\ \E full_path \in CategoryPaths, trans_type \in {INCOME, EXPENSE},
          main_out \in CreateOutcomes, sub_out \in CreateOutcomes :
          LET ens == ensure_category_hierarchy(category_map, full_path, trans_type,
                         create_succeeds(main_out), create_succeeds(sub_out))
              made == [i \in 1..Len(ens.requests) |->
                         [key |-> ens.requests[i].key,
                          level |-> ens.requests[i].level,
                          outcome |-> IF ens.requests[i].level = "main"
                                      THEN main_out ELSE sub_out]]
          IN  /\ category_map' = ens.map
              /\ stats' = [stats EXCEPT !.new_categories = @ + ens.created]
              /\ calls' = calls \o made
              /\ history' = Append(history, [full_path |-> full_path,
                                             trans_type |-> trans_type,
                                             id |-> ens.id,
                                             requests |-> made])
    /\ last' = "ensured"
    /\ UNCHANGED <<phase, matchVars, codecVars, inputVars, gatewayVars, ledger,
                   server_categories, transfer_cats, cursor, run, exit_code>>

NextCategories == EnsureHierarchy

SpecCategories == InitCategories /\ [][NextCategories]_vars

\* a call of ensure_category_hierarchy has just returned
Ensured == Len(history') > Len(history)

\* the call that has just returned
Newest == history'[Len(history')]

\* C26: ensure_category_hierarchy with an empty path or with the transfer
\* marker name returns "0" at once: no remote call, the category map and the
\* new-categories counter unchanged.
C26_NeutralPath ==
    [][ (Ensured /\ Newest.full_path \in {<<>>, Umbuchung}) =>
          /\ Newest.id = NEUTRAL
          /\ Newest.requests = <<>>
          /\ calls' = calls
          /\ category_map' = category_map
          /\ stats' = stats ]_vars

\* the transfer marker name was passed after a category had been created
C26_Witness ==
    /\ Len(history) = 2
    /\ history[1].requests # <<>>
    /\ stats.new_categories > 0
    /\ history[2].full_path = Umbuchung
    /\ history[2].id = NEUTRAL

\* the key of the top-level category of a path
MainKeyOf(full_path, trans_type) ==
    CatKey(IF trans_type = INCOME THEN 1 ELSE 2,
           StrStrip(StrSplit(full_path, <<":">>)[1]))

\* the requests of a call that created nothing
FailedIn(h) == {i \in 1..Len(h.requests) : h.requests[i].outcome # "ok"}

\* C27: a category creation that fails (rejection, transport error, malformed
\* response) does not make ensure_category_hierarchy raise: a failed
\* top-level creation returns "0" without trying the sub-category, a failed
\* sub-category creation returns the top-level id; the failing key is not
\* added to the map and the error counter stays.
C27_CreationFailure ==
    [][ Ensured =>
          /\ \A i \in FailedIn(Newest) :
                /\ Newest.requests[i].key \notin DOMAIN category_map'
                /\ Newest.requests[i].level = "main" =>
                      /\ Newest.id = NEUTRAL
                      /\ Len(Newest.requests) = 1
                /\ Newest.requests[i].level = "sub" =>
                      /\ MainKeyOf(Newest.full_path, Newest.trans_type)
                            \in DOMAIN category_map'
                      /\ Newest.id = category_map'[MainKeyOf(Newest.full_path,
                                                            Newest.trans_type)]
          /\ stats'.errors = stats.errors ]_vars

\* the top-level category was created and the sub-category failed with a
\* transport error; then the top-level creation of another type was rejected
C27_Witness ==
    /\ Len(history) = 2
    /\ Len(history[1].requests) = 2
    /\ history[1].requests[1].outcome = "ok"
    /\ history[1].requests[2].outcome = "error"
    /\ history[1].id # NEUTRAL
    /\ Len(history[2].requests) = 1
    /\ history[2].requests[1].outcome = "rejected"
    /\ history[2].id = NEUTRAL

\* C28: the new-categories counter equals the number of create_category
\* calls that succeeded: one increment per successful creation, none for a
\* failed creation or a cache hit.
C28_CategoryCounter ==
    stats.new_categories = Cardinality({i \in 1..Len(calls) : calls[i].outcome = "ok"})

\* two categories created over two calls that also saw a failed creation and
\* a cache hit
C28_Witness ==
    /\ stats.new_categories = 2
    /\ Len(calls) = 3
    /\ calls[2].outcome # "ok"
    /\ Len(history) = 2
    /\ history[1].full_path = history[2].full_path
    /\ Len(history[2].requests) = 1

\* two calls in a row with the same arguments
SameArguments(i) ==
    /\ history[i].full_path = history[i + 1].full_path
    /\ history[i].trans_type = history[i + 1].trans_type

\* C29 as stated: two calls in a row with the same (path, type) make at most
\* one create_category call in total, and the second makes none.
C29_OneCallInTotal ==
    \A i \in 1..(Len(history) - 1) :
       SameArguments(i) =>
          /\ Len(history[i].requests) + Len(history[i + 1].requests) <= 1
          /\ history[i + 1].requests = <<>>

\* C29 amended: of two calls in a row with the same (path, type), each makes
\* at most one create_category call per level of the path, no key is created
\* twice, and when no creation of the first call failed the second call is
\* served from the cache and makes no remote call.
C29_Caching ==
    \A i \in 1..(Len(history) - 1) :
       SameArguments(i) =>
          LET both == history[i].requests \o history[i + 1].requests
          IN  /\ \A h \in {history[i], history[i + 1]} :
                    /\ Len(h.requests) <= 2
                    /\ \A a \in 1..Len(h.requests), b \in 1..Len(h.requests) :
                          h.requests[a].level = h.requests[b].level => a = b
              /\ \A a \in 1..Len(both), b \in 1..Len(both) :
                    (/\ both[a].key = both[b].key
                     /\ both[a].outcome = "ok"
                     /\ both[b].outcome = "ok") => a = b
              /\ FailedIn(history[i]) = {} => history[i + 1].requests = <<>>

\* a top:sub path was created with two calls, and the same arguments again
\* made no call
C29_Witness ==
    /\ Len(history) = 2
    /\ SameArguments(1)
    /\ Len(history[1].requests) = 2
    /\ FailedIn(history[1]) = {}
    /\ history[2].requests = <<>>
    /\ history[2].id = history[1].id

-----------------------------------------------------------------------------
(* Amounts: from the raw Amt of an entry to the amount of the create call *)

\* the entries of the source files that from_json turns into a record
ParsedEntries ==
    {[data |-> files[f].records[r],
      tx |-> from_json(files[f].records[r], files[f].stem).tx] :
        <<f, r>> \in {x \in (1..Len(files)) \X (1..MaxRecs) :
                        /\ x[2] <= Len(files[x[1]].records)
                        /\ from_json(files[x[1]].records[x[2]],
                                     files[x[1]].stem).exc = "none"}}

\* the record whose amount a create call sends
AmountSource(c) == IF c.kind = "pair" THEN c.src.source_tx ELSE c.src

\* C31: every parsed record stores the absolute value of its raw amount and
\* takes its direction from CdtDbtInd alone, whatever the sign of the raw
\* amount; every create call sends that amount, a non-negative integer of
\* minor units, and an ordinary call is INCOME exactly when the record's
\* direction is CRDT.
C31_AmountSign ==
    /\ \A e \in ParsedEntries :
          /\ e.tx.amount = (IF e.data.Amt.cents < 0 THEN 0 - e.data.Amt.cents
                            ELSE e.data.Amt.cents)
          /\ e.tx.amount >= 0
          /\ e.tx.direction = e.data.CdtDbtInd
    /\ \A i \in 1..Len(calls) :
          LET c == calls[i]
          IN  /\ c.payload.sourceAmount \in Nat
              /\ \E e \in ParsedEntries :
                    /\ e.tx = AmountSource(c)
                    /\ c.payload.sourceAmount =
                         (IF e.data.Amt.cents < 0 THEN 0 - e.data.Amt.cents
                          ELSE e.data.Amt.cents)
              /\ c.kind = "pair" =>
                    c.payload.destinationAmount = c.payload.sourceAmount
              /\ c.kind = "single" =>
                    /\ (c.payload.type = INCOME) = (c.src.direction = CREDIT)
                    /\ (c.payload.type = EXPENSE) = (c.src.direction = DEBIT)

\* two debits of one run created, one with a negative and one with an
\* unsigned raw amount
C31_Witness ==
    /\ phase = "summary"
    /\ \E i, j \in 1..Len(calls) :
          /\ calls[i].ok /\ calls[j].ok
          /\ calls[i].kind = "single" /\ calls[j].kind = "single"
          /\ calls[i].src.direction = DEBIT /\ calls[j].src.direction = DEBIT
          /\ \E e, g \in ParsedEntries :
                /\ e.tx = calls[i].src /\ e.data.Amt.cents < 0
                /\ g.tx = calls[j].src /\ g.data.Amt.cents > 0
                /\ calls[i].payload.sourceAmount = 0 - e.data.Amt.cents
                /\ calls[j].payload.sourceAmount = g.data.Amt.cents

-----------------------------------------------------------------------------
(* The output of find_matches as a whole, checked under SpecMatch *)

\* the records of the returned pairs, left-hand sides and partners
PairLefts == {matched_pairs[n].source_tx : n \in 1..Len(matched_pairs)}

PairPartners == {matched_pairs[n].dest_tx : n \in 1..Len(matched_pairs)}

\* the candidates whose id is in the existing-id set
ExistingCandidates ==
    {transfers[k] : k \in {j \in 1..Len(transfers) : transfers[j].id \in existing_ids}}

\* C32: a candidate whose id is in the existing-id set handed to find_matches
\* is never the left-hand record of a pair, never the partner of a pair and
\* never in the unmatched output.
C32_ExistingExcluded ==
    phase = "matched" =>
      /\ ExistingCandidates \cap PairLefts = {}
      /\ ExistingCandidates \cap PairPartners = {}
      /\ ExistingCandidates \cap Range(unmatched) = {}
      /\ \A n \in 1..Len(trace) :
            /\ transfers[trace[n][1]].id \notin existing_ids
            /\ trace[n][2] # 0 => transfers[trace[n][2]].id \notin existing_ids

\* C32 witness: the first record matches the second and the third, the second
\* is already existing: the first was paired with the third and the second
\* is in no output.
C32_Witness ==
    /\ phase = "matched"
    /\ Len(transfers) = 3
    /\ existing_ids = {transfers[2].id}
    /\ PairingPredicate(transfers[1], transfers[2])
    /\ PairingPredicate(transfers[1], transfers[3])
    /\ matched_pairs = <<TransferPair(transfers[1], transfers[3])>>
    /\ unmatched = <<>>


\* how often the record at position k appears in the output of find_matches
Appearances(k) ==
    Cardinality({n \in 1..Len(matched_pairs) : matched_pairs[n].source_tx = transfers[k]})
    + Cardinality({n \in 1..Len(matched_pairs) : matched_pairs[n].dest_tx = transfers[k]})
    + Cardinality({n \in 1..Len(unmatched) : unmatched[n] = transfers[k]})

\* C34: the ids of the candidates being pairwise distinct, every candidate
\* whose id is not in the existing-id set appears in the output of
\* find_matches exactly once, as one side of one pair or once in the unmatched
\* list; the output holds candidates only; and a record that went to the
\* unmatched list is not chosen as a partner afterwards.
C34_Partition ==
    phase = "matched" =>
      /\ \A k \in 1..Len(transfers) :
            Appearances(k) = IF transfers[k].id \in existing_ids THEN 0 ELSE 1
      /\ PairLefts \cup PairPartners \cup Range(unmatched) \subseteq Range(transfers)
      /\ \A n \in 1..Len(trace) :
            trace[n][2] = 0 =>
              \A m \in (n + 1)..Len(trace) : trace[m][2] # trace[n][1]

\* C34 witness: of three candidates the first and the third were paired and
\* the second, visited in between, stayed unmatched.
C34_Witness ==
    /\ phase = "matched"
    /\ Len(transfers) = 3
    /\ existing_ids = {}
    /\ matched_pairs = <<TransferPair(transfers[1], transfers[3])>>
    /\ unmatched = <<transfers[2]>>

\* C35: the ids being pairwise distinct, no two records of the unmatched
\* output satisfy the pairing predicate with each other.
C35_Maximal ==
    phase = "matched" =>
      \A m, n \in 1..Len(unmatched) :
         m # n => ~PairingPredicate(unmatched[m], unmatched[n])

\* C35 witness: the matching is maximal but not of maximum size: the first
\* record took the second, which was the only partner the third could have
\* had, and the third stayed unmatched.
C35_Witness ==
    /\ phase = "matched"
    /\ Len(transfers) = 3
    /\ existing_ids = {}
    /\ PairingPredicate(transfers[2], transfers[3])
    /\ matched_pairs = <<TransferPair(transfers[1], transfers[2])>>
    /\ unmatched = <<transfers[3]>>

\* the input position of a record of the output (ids are pairwise distinct)
PositionOf(tx) == CHOOSE k \in 1..Len(transfers) : transfers[k] = tx

\* C36: in every pair the first element precedes the second in the input,
\* pairs are listed by increasing input position of their first element, the
\* unmatched list keeps the input order, and the combined id of a pair is the
\* id of the earlier record, "_", the id of the later one, whichever side is
\* the debit.
C36_OutputOrder ==
    phase = "matched" =>
      /\ \A n \in 1..Len(matched_pairs) :
            /\ PositionOf(matched_pairs[n].source_tx)
                 < PositionOf(matched_pairs[n].dest_tx)
            /\ combined_id(matched_pairs[n])
                 = transfers[Min({PositionOf(matched_pairs[n].source_tx),
                                  PositionOf(matched_pairs[n].dest_tx)})].id
                   \o <<"_">>
                   \o transfers[IF PositionOf(matched_pairs[n].source_tx)
                                     < PositionOf(matched_pairs[n].dest_tx)
                                 THEN PositionOf(matched_pairs[n].dest_tx)
                                 ELSE PositionOf(matched_pairs[n].source_tx)].id
      /\ \A m, n \in 1..Len(matched_pairs) :
            m < n => PositionOf(matched_pairs[m].source_tx)
                       < PositionOf(matched_pairs[n].source_tx)
      /\ \A m, n \in 1..Len(unmatched) :
            m < n => PositionOf(unmatched[m]) < PositionOf(unmatched[n])

\* C36 witness: a pair whose credit side came first in the input, its id led
\* by the credit side's id, and an unmatched record before it.
C36_Witness ==
    /\ phase = "matched"
    /\ Len(transfers) = 3
    /\ unmatched = <<transfers[1]>>
    /\ Len(matched_pairs) = 1
    /\ matched_pairs[1].source_tx = transfers[2]
    /\ matched_pairs[1].source_tx.direction = CREDIT
    /\ combined_id(matched_pairs[1]) = <<"2", "_", "3">>

-----------------------------------------------------------------------------
(* config.py and main: the configuration built from the environment and the *)
(* command line.  A variable or option is NotGiven or Given(text); the text  *)
(* of a URL, folder or log level is a single token.                          *)
(* Specification SpecConfig: main is started under every sample environment *)
(* and every sample command line, builds the configuration and validates it *)

NotGiven == [kind |-> "absent", text |-> <<>>]

Given(text) == [kind |-> "str", text |-> text]

\* `if value:` on an optional string
truthy(v) == v.kind = "str" /\ v.text # <<>>

\* os.getenv(name, default)
getenv(v, default) == IF v.kind = "absent" THEN default ELSE v.text

\* os.getenv("BAEZI_API_URL", ...)
DefaultApiUrl == <<"http://192.168.176.3:8050/api/v1">>

\* os.getenv("BAEZI_JSON_FOLDER", ...)
DefaultJsonFolder == <<"/mnt/c/Users/simon/b4export">>

DefaultLogLevel == <<"INFO">>

DefaultPageSize == <<"5", "0">>

\* int(text): the number, or ValueError
int_of(text) ==
    IF text # <<>> /\ \A i \in 1..Len(text) : IsDigit(text[i])
    THEN [exc |-> "none", value |-> StrToNat(text)]
    ELSE [exc |-> "ValueError"]

\* the folders Path.exists() finds
ExistingFolders == {DefaultJsonFolder, <<"/export">>}

\* Config.from_env(): [exc |-> "none", config |-> Config] or the exception;
\* BAEZI_TRANSFER_TOLERANCE_DAYS is read like BAEZI_PAGE_SIZE and left at its
\* default here
from_env(env) ==
    IF ~truthy(env.BAEZI_API_TOKEN)
    THEN [exc |-> "ValueError"]
    ELSE IF int_of(getenv(env.BAEZI_PAGE_SIZE, DefaultPageSize)).exc # "none"
    THEN [exc |-> "ValueError"]
    ELSE [exc |-> "none",
          config |-> [api_base_url |-> getenv(env.BAEZI_API_URL, DefaultApiUrl),
                      api_token |-> env.BAEZI_API_TOKEN.text,
                      json_folder |-> getenv(env.BAEZI_JSON_FOLDER, DefaultJsonFolder),
                      min_booking_date |-> getenv(env.BAEZI_MIN_DATE, DefaultMinDate),
                      log_level |-> getenv(env.BAEZI_LOG_LEVEL, DefaultLogLevel),
                      page_size |-> int_of(getenv(env.BAEZI_PAGE_SIZE,
                                                  DefaultPageSize)).value]]

\* Config.from_args(api_url, api_token, json_folder, min_date, log_level)
from_args(env, api_url, api_token, json_folder, min_date, log_level) ==
    LET base_config == from_env(env)
    IN  IF base_config.exc # "none"
        THEN base_config
        ELSE [exc |-> "none",
              config |->
                [base_config.config EXCEPT
                   !.api_base_url = IF truthy(api_url) THEN api_url.text ELSE @,
                   !.api_token = IF truthy(api_token) THEN api_token.text ELSE @,
                   !.json_folder = IF truthy(json_folder) THEN json_folder.text ELSE @,
                   !.min_booking_date = IF truthy(min_date) THEN min_date.text ELSE @,
                   !.log_level = IF truthy(log_level) THEN log_level.text ELSE @]]

\* main: verbose gives DEBUG, no --log-level gives INFO
main_log_level(args) ==
    IF args.verbose THEN Given(<<"DEBUG">>)
    ELSE IF ~truthy(args.log_level) THEN Given(DefaultLogLevel)
    ELSE args.log_level

Environs ==
    [BAEZI_API_TOKEN : {NotGiven, Given(<<>>), Given(<<"k">>)},
     BAEZI_API_URL : {NotGiven, Given(<<"http://env/api">>)},
     BAEZI_JSON_FOLDER : {NotGiven, Given(<<"/gone">>)},
     BAEZI_MIN_DATE : {NotGiven,
                       Given(<<"2", "0", "2", "4", "-", "0", "2", "-", "1", "5">>)},
     BAEZI_LOG_LEVEL : {NotGiven, Given(<<"WARNING">>)},
     BAEZI_PAGE_SIZE : {NotGiven, Given(<<"2", "5">>), Given(<<"x">>)}]

CommandLines ==
    [api_token : {NotGiven, Given(<<"a">>)},
     api_url : {NotGiven, Given(<<"http://cli/api">>)},
     json_folder : {NotGiven, Given(<<"/export">>)},
     min_date : {NotGiven, Given(<<>>),
                 Given(<<"2", "0", "2", "4", "-", "0", "3", "-", "0", "1">>)},
     log_level : {NotGiven, Given(<<"ERROR">>)},
     verbose : BOOLEAN]

\* the Config object before main has built it
NoConfig == [DefaultConfig EXCEPT !.api_token = <<>>]

InitConfig ==
    /\ phase = "start"
    /\ MatchIdle
    /\ CodecIdle
    /\ GatewayIdle
    /\ environ \in Environs
    /\ argv \in CommandLines
    /\ files = <<>>
    /\ account_map = <<>>
    /\ config = NoConfig
    /\ ledger = <<>>
    /\ server_categories = <<>>
    /\ category_map = <<>>
    /\ transfer_cats = NoTransferCats
    /\ cursor = NoCursor
    /\ stats = NoStats
    /\ calls = <<>>
    /\ last = "init"
    /\ run = 1
    /\ history = <<>>
    /\ exit_code = -1

\* main: Config.from_args(...), sys.exit(1) on ValueError
FromArgs ==
    /\ phase = "start"
    /\ LET r == from_args(environ, argv.api_url, argv.api_token, argv.json_folder,
                          argv.min_date, main_log_level(argv))
       IN  IF r.exc = "none"
           THEN /\ config' = [api_base_url |-> r.config.api_base_url,
                              api_token |-> r.config.api_token,
                              json_folder |-> r.config.json_folder,
                              json_folder_exists |->
                                  r.config.json_folder \in ExistingFolders,
                              min_booking_date |-> r.config.min_booking_date,
                              log_level |-> r.config.log_level,
                              page_size |-> r.config.page_size]
                /\ phase' = "config"
                /\ exit_code' = exit_code
                /\ last' = "configured"
           ELSE /\ config' = config
                /\ phase' = "rejected"
                /\ exit_code' = 1
                /\ last' = "configuration error"
    /\ UNCHANGED <<matchVars, codecVars, files, account_map, launchVars, gatewayVars,
                   ledger, server_categories, category_map, transfer_cats, cursor,
                   stats, calls, run, history>>

NextConfig == FromArgs \/ Validate

SpecConfig == InitConfig /\ [][NextConfig]_vars

\* main got past Config.from_args, or was stopped by it
ArgsDone == last \in {"configured", "configuration error"}

\* C33: a value given as a command-line option overrides the environment
\* variable, and Config.from_args succeeds whenever the API token is given by
\* the option or by BAEZI_API_TOKEN, failing with a configuration error only
\* when it is given neither way.
C33_ConfigPrecedence ==
    ArgsDone =>
      /\ (last = "configuration error")
           = (~truthy(argv.api_token) /\ ~truthy(environ.BAEZI_API_TOKEN))
      /\ last = "configured" =>
           /\ truthy(argv.api_token) => config.api_token = argv.api_token.text
           /\ truthy(argv.api_url) => config.api_base_url = argv.api_url.text
           /\ truthy(argv.json_folder) => config.json_folder = argv.json_folder.text
           /\ truthy(argv.min_date) => config.min_booking_date = argv.min_date.text
           /\ truthy(argv.log_level) /\ ~argv.verbose
                => config.log_level = argv.log_level.text

-----------------------------------------------------------------------------
(* The counters of ImportStats against what the run did *)

\* the entries of mapped files the direct pass has met: those it has gone
\* past and the one it was stopped at
MetEntries ==
    Passed \cup (IF phase = "aborted" THEN {<<cursor.file, cursor.record>>} ELSE {})

\* the booked entries met that from_json did not turn into a record
ParseFailures ==
    {pos \in MetEntries : get_BookgSts(DataAt(pos)) = "BOOK" /\ ParseAt(pos).exc # "none"}

SucceededCalls == {i \in 1..Len(calls) : calls[i].ok}

RunEnded == phase \in {"summary", "aborted"}

\* C37: at the end of every run new_transactions + new_transfers is the
\* number of create calls that succeeded, new_transfers is the number of
\* successful calls for a pair, and errors is the number of entries that
\* failed to parse plus the number of failed create calls (a failed pair
\* counting once); failed category creations count nowhere in errors.
C37_StatsAccounting ==
    RunEnded =>
      /\ stats.new_transactions + stats.new_transfers = Cardinality(SucceededCalls)
      /\ stats.new_transfers
           = Cardinality({i \in SucceededCalls : calls[i].kind = "pair"})
      /\ stats.errors = Cardinality(ParseFailures) + Cardinality(FailedCalls)

-----------------------------------------------------------------------------
(* The accounts of the create calls, checked under SpecStartup *)

\* the target accounts the account map leads to
MappedTargets == {account_map[k] : k \in DOMAIN account_map}

\* the record whose account is the source account of a create call
SourceSide(c) == IF c.kind = "pair" THEN sender(c.src) ELSE c.src

\* the account ids the payload of a create call carries
ReferencedAccounts(p) ==
    {p.sourceAccountId}
    \cup (IF "destinationAccountId" \in DOMAIN p THEN {p.destinationAccountId} ELSE {})

\* the source account of every call is the one mapped from its record's (or
\* its pair's sender's) source account, the destination account of a pair the
\* one mapped from the receiver's
AccountsAsMapped ==
    \A i \in 1..Len(calls) :
       LET c == calls[i]
       IN  /\ has_account(account_map, SourceSide(c).account_id)
           /\ c.payload.sourceAccountId = account_map[SourceSide(c).account_id]
           /\ c.kind = "pair" =>
                 /\ has_account(account_map, receiver(c.src).account_id)
                 /\ c.payload.destinationAccountId
                      = account_map[receiver(c.src).account_id]

\* C38: every create call of a run references mapped accounts only - its
\* source account is the target account mapped from the source account of the
\* record (or of the pair's sender), a pair's destination account the one
\* mapped from the receiver's source account, no call has an unmapped or
\* missing source account - and the account map is not modified after its
\* initial load.
C38_MappedAccountsOnly ==
    /\ [](/\ AccountsAsMapped
          /\ \A i \in 1..Len(calls) :
                ReferencedAccounts(calls[i].payload) \subseteq MappedTargets)
    /\ [][phase # "accounts" => account_map' = account_map]_vars

-----------------------------------------------------------------------------
(* Specification SpecDuplicates: one run over source files in which the     *)
(* same Id occurs more than once, as ordinary and as Umbuchung entries.     *)

MaxDuplicates == 3

\* entries that share the Id d1, and a transfer d2 that can pair with one of
\* them
DuplicateCatalogue ==
    << [stem |-> "100",
        data |-> Entry(<<"d", "1">>, 32, 5000, <<"p">>, CREDIT, <<>>, BOOKED)],
       [stem |-> "100",
        data |-> Entry(<<"d", "1">>, 33, -700, <<"q">>, DEBIT, Umbuchung, BOOKED)],
       [stem |-> "200",
        data |-> Entry(<<"d", "1">>, 34, 700, <<"r">>, CREDIT, Umbuchung, BOOKED)],
       [stem |-> "200",
        data |-> Entry(<<"d", "1">>, 35, -300, <<"s">>, DEBIT, <<>>, BOOKED)],
       [stem |-> "200",
        data |-> Entry(<<"d", "2">>, 34, 700, <<"t">>, CREDIT, Umbuchung, BOOKED)] >>

\* at most n entries of the catalogue cat, in its order
SelectionsUpTo(cat, n) ==
    {[j \in 1..Len(idx) |-> cat[idx[j]]] :
        idx \in {SelectSeq([i \in 1..Len(cat) |-> i], LAMBDA i : i \in S) :
                    S \in {T \in SUBSET (1..Len(cat)) : Cardinality(T) <= n}}}

InitDuplicates ==
    /\ phase = "load"
    /\ MatchIdle
    /\ CodecIdle
    /\ LaunchIdle
    /\ GatewayIdle
    /\ \E src \in SelectionsUpTo(DuplicateCatalogue, MaxDuplicates) :
          files = FilesOf(src)
    /\ account_map = MappedAccounts
    /\ config = DefaultConfig
    /\ \E server \in Servers :
          /\ ledger = server.ledger
          /\ server_categories = server.categories
          /\ category_map = server.categories
          /\ transfer_cats = server.cats
    /\ cursor = NoCursor
    /\ stats = NoStats
    /\ calls = <<>>
    /\ last = "init"
    /\ run = 1
    /\ history = <<>>
    /\ exit_code = -1

SpecDuplicates == InitDuplicates /\ [][NextRun]_vars

\* the source ids in the marker of the comment a create call sent
MarkerIdsOf(c) == comment_ids(c.payload.comment)

\* the successful create calls whose marker holds the id
SucceededFor(id) == {i \in 1..Len(calls) : calls[i].ok /\ id \in MarkerIdsOf(calls[i])}

\* the ids the ledger held before the run created anything
LedgerIdsAtStart ==
    load_ids(SubSeq(LedgerComments, 1,
                    Len(ledger) - Cardinality({i \in 1..Len(calls) : calls[i].ok})))

\* C39: within one run, however often a source id occurs in the input (in one
\* file or across files, as ordinary or as transfer entries), at most one
\* create call whose marker holds the id succeeds; a failed create call adds
\* nothing to existing_ids, so an id is in the set only if the ledger held it
\* or a call for it succeeded, and a later ordinary occurrence of an id whose
\* call failed has a call made for it again.
C39_DuplicateIds ==
    /\ \A i \in 1..Len(calls) :
          \A id \in MarkerIdsOf(calls[i]) : Cardinality(SucceededFor(id)) <= 1
    /\ \A id \in existing_ids : id \in LedgerIdsAtStart \/ SucceededFor(id) # {}
    /\ phase = "summary" =>
          \A pos \in Passed :
             (InScope(pos) /\ ~is_transfer(ParseAt(pos).tx))
               => \/ \E i \in 1..Len(calls) : calls[i].src = ParseAt(pos).tx
                  \/ ParseAt(pos).tx.id \in LedgerIdsAtStart
                  \/ SucceededFor(ParseAt(pos).tx.id) # {}

\* C39 witness: the id d1 occurs three times; the call for its first ordinary
\* occurrence failed, the later ordinary occurrence was tried again and
\* created, and the Umbuchung entry in between was left out of the matching.
C39_Witness ==
    /\ phase = "summary"
    /\ Len(calls) = 2
    /\ calls[1].kind = "single" /\ ~calls[1].ok
    /\ calls[2].kind = "single" /\ calls[2].ok
    /\ calls[1].src.id = calls[2].src.id
    /\ calls[1].src # calls[2].src
    /\ Len(files[1].records) = 2
    /\ matched_pairs = <<>> /\ unmatched = <<>>
    /\ Cardinality(SucceededFor(calls[1].src.id)) = 1

====
